---- MODULE Spec2Model ----
(***************************************************************************)
(* Model of the Claude Code + Stream Deck PTY wrapper.                     *)
(*                                                                         *)
(*   src/wrapper/claude_deck_wrapper.py   the wrapper ("wrapper" variant)  *)
(*   src/claude_deck_wrapper.py           the simplified variant ("simple")*)
(*                                                                         *)
(* Text is a sequence of characters, a chunk a sequence of bytes.  A byte  *)
(* or character is a string: an ASCII character stands for itself, "ESC"   *)
(* is 0x1B, "E2" "8F" "B5" "B8" "FF" are the non-ASCII bytes of that hex   *)
(* value, and "U23F5" is the character U+23F5 (the auto-accept glyph),     *)
(* "U23F8" the character U+23F8 (the plan-mode glyph), and so on.          *)
(***************************************************************************)
EXTENDS Integers, Sequences, FiniteSets, TLC

VARIABLES
    variant,        \* which of the two programs runs: "wrapper" or "simple"
    state,          \* ClaudeWrapper.state, the ClaudeState object
    clock,          \* time.time(), a logical clock
    lastChunk,      \* history: the bytes given to the last parse_output call
    prev,           \* history: the ClaudeState before the last parse_output call
    allText,        \* history: every decoded text ingested, concatenated
    ingests,        \* history: number of parse_output calls so far
    fed,            \* history: number of pieces of child output so far
    seenModeRule    \* history: some ingested chunk contained a mode pattern

VARIABLES
    debug_handle,       \* ClaudeWrapper.debug_handle: "None", or the file, "open" or "closed"
                        \* (the simplified variant has none: "None")
    running,            \* ClaudeWrapper.running
    master_fd,          \* ClaudeWrapper.master_fd: "None" or "fd"
    fdOpen,             \* the kernel has that descriptor open
    claude_pid,         \* ClaudeWrapper.claude_pid: "None" or "pid"
    child,              \* the child process: "none", "alive", "zombie" (exited), "reaped"
    original_settings,  \* ClaudeWrapper.original_settings: "None" or "saved"
    term,               \* mode of the local terminal: "cooked" or "raw"
    http_server,        \* ClaudeWrapper.http_server: "None" or "server"
    srv,                \* the server's socket: "none", "listening", "closed"
    shutdown_request,   \* HTTPServer.__shutdown_request
    is_shut_down,       \* HTTPServer.__is_shut_down (an event)
    mainPc,             \* position of the main thread in run() and cleanup()
    httpPc,             \* position of the server thread
    ready,              \* run(): the descriptors select returned
    rdata,              \* run(): data, the bytes read from the master descriptor
    trigger,            \* what ended the loop of run()
    command,            \* send_command(): the command being sent
    pending,            \* send_command(): the writes still to do
    requests,           \* history: the POST /command requests in order, each with the
                        \* answer it got (code "pending" while it is handled)
    ptyOut,             \* bytes the child wrote that the loop has not read
    stdinBuf,           \* bytes typed that the loop has not read
    masterLog,          \* history: the writes to the master descriptor, in order, each
                        \* with its writer and, for send_command, the number of its request
    termOut,            \* history: the bytes written to the local terminal
    cleanupLog,         \* history: <<call, effect>> of every effect of cleanup
    cleanupCalls,       \* history: number of cleanup() calls begun
    runCleanups,        \* history: number of cleanup() calls made by run()
    closeFailed,        \* history: calls of cleanup in which os.close raised
    typed,              \* history: number of inputs typed
    posted,             \* history: number of requests the clients have sent
    exec,               \* os.execvp('claude', ...) in the forked child: "none" before
                        \* the fork, "found", "not_found" (FileNotFoundError)
    exit_status,        \* exit status of the program: "running", "0", "1"
    reply               \* history: the answer to the last GET request

clsVars == <<variant, state, clock, lastChunk, prev, allText, ingests, fed, seenModeRule>>

wrapVars == <<debug_handle, running, master_fd, fdOpen, claude_pid,
              original_settings, term, http_server>>
envVars == <<child, srv, shutdown_request, is_shut_down, ptyOut, stdinBuf>>
mainVars == <<mainPc, ready, rdata, trigger>>
httpVars == <<httpPc, command, pending, requests>>
histVars == <<masterLog, termOut, cleanupLog, cleanupCalls, runCleanups, closeFailed,
              typed, posted>>

procVars == <<exec, exit_status>>

getVars == <<reply>>

sysVars == <<wrapVars, envVars, mainVars, httpVars, histVars, procVars, getVars>>

vars == <<clsVars, sysVars>>

----------------------------------------------------------------------------
(* Bounds of the model *)

MaxPieces == 3      \* pieces of child output in one behaviour
MaxEvents == 2      \* outputs written, inputs typed and commands posted in one behaviour
MaxCleanupCalls == 2 \* cleanup() calls in one behaviour

(* Program constants *)

BufferCap == 2000          \* wrapper: self.buffer[-2000:]
SimpleBufferCap == 1000    \* simplified variant: self.buffer[-1000:]
ReadSize == 1024           \* os.read(self.master_fd, 1024)

----------------------------------------------------------------------------
(* Characters and bytes *)

ESC == "ESC"
Upper == <<"A","B","C","D","E","F","G","H","I","J","K","L","M",
           "N","O","P","Q","R","S","T","U","V","W","X","Y","Z">>
LowerCase == <<"a","b","c","d","e","f","g","h","i","j","k","l","m",
           "n","o","p","q","r","s","t","u","v","w","x","y","z">>

\* str.lower() on one character
LowerOf == [c \in {Upper[i] : i \in 1..26} |-> LowerCase[CHOOSE i \in 1..26 : Upper[i] = c]]
LowerChar(c) == IF c \in DOMAIN LowerOf THEN LowerOf[c] ELSE c

\* str.lower()
Lower(s) == SubSeq([i \in 1..Len(s) |-> LowerChar(s[i])], 1, Len(s))

\* Python's str.strip() whitespace (those of the model's alphabet)
Whitespace == {" ", "\t", "\n", "\r"}

\* UTF-8: E2 is the lead byte of a three-byte sequence, 80..BF continue it
LeadBytes == {"E2"}
ContBytes == {"8F", "B5", "B8"}
InvalidBytes == {"FF"}
NonAscii == LeadBytes \cup ContBytes \cup InvalidBytes

\* the character E2 b1 b2 encodes: 0x2000 + (b1 & 0x3F) * 64 + (b2 & 0x3F)
Utf8Char(b1, b2) ==
    CASE b1 = "8F" /\ b2 = "8F" -> "U23CF"
      [] b1 = "8F" /\ b2 = "B5" -> "U23F5"
      [] b1 = "8F" /\ b2 = "B8" -> "U23F8"
      [] b1 = "B5" /\ b2 = "8F" -> "U2D4F"
      [] b1 = "B5" /\ b2 = "B5" -> "U2D75"
      [] b1 = "B5" /\ b2 = "B8" -> "U2D78"
      [] b1 = "B8" /\ b2 = "8F" -> "U2E0F"
      [] b1 = "B8" /\ b2 = "B5" -> "U2E35"
      [] b1 = "B8" /\ b2 = "B8" -> "U2E38"

\* str.encode() of one character
EncodeChar(c) ==
    CASE c = "U23CF" -> <<"E2","8F","8F">>
      [] c = "U23F5" -> <<"E2","8F","B5">>
      [] c = "U23F8" -> <<"E2","8F","B8">>
      [] c = "U2D4F" -> <<"E2","B5","8F">>
      [] c = "U2D75" -> <<"E2","B5","B5">>
      [] c = "U2D78" -> <<"E2","B5","B8">>
      [] c = "U2E0F" -> <<"E2","B8","8F">>
      [] c = "U2E35" -> <<"E2","B8","B5">>
      [] c = "U2E38" -> <<"E2","B8","B8">>
      [] OTHER -> <<c>>

\* a lone surrogate is a character of a Python string that UTF-8 cannot
\* encode: str.encode() raises UnicodeEncodeError
Surrogates == {"UD800"}
Encodable(s) == \A i \in 1..Len(s) : s[i] \notin Surrogates

\* str.encode()
RECURSIVE Encode(_)
Encode(s) == IF s = <<>> THEN <<>> ELSE EncodeChar(Head(s)) \o Encode(Tail(s))

\* What bytes.decode('utf-8', errors='ignore') emits at byte i: an ASCII byte
\* is its character, a lead byte followed by two continuation bytes is the
\* character they encode, and every other byte (a stray continuation byte, a
\* lead byte whose sequence is cut short or broken, an invalid byte) is dropped.
DecodeAt(data, i) ==
    IF data[i] \notin NonAscii THEN data[i]
    ELSE IF /\ data[i] \in LeadBytes
            /\ i + 2 <= Len(data)
            /\ data[i+1] \in ContBytes
            /\ data[i+2] \in ContBytes
         THEN Utf8Char(data[i+1], data[i+2])
         ELSE "DROP"

\* data.decode('utf-8', errors='ignore')
Decode(data) ==
    SelectSeq([i \in 1..Len(data) |-> DecodeAt(data, i)], LAMBDA c : c # "DROP")

\* p in s
Contains(s, p) ==
    \/ p = <<>>
    \/ \E i \in 1..(Len(s) - Len(p) + 1) : s[i] = p[1] /\ SubSeq(s, i, i + Len(p) - 1) = p

----------------------------------------------------------------------------
(* The patterns of ClaudeState.parse_output *)

AutoAcceptMarker == <<"U23F5","U23F5"," ","a","u","t","o","-","a","c","c","e","p","t"," ","e","d","i","t","s"," ","o","n">>
PlanMarker == <<"U23F8"," ","p","l","a","n"," ","m","o","d","e"," ","o","n">>
ShortcutsMarker == <<"?"," ","f","o","r"," ","s","h","o","r","t","c","u","t","s">>
ExitMarker == <<"P","r","e","s","s"," ","C","t","r","l","-","C"," ","a","g","a","i","n"," ","t","o"," ","e","x","i","t">>
WelcomeMarker == <<"W","e","l","c","o","m","e"," ","t","o"," ","C","l","a","u","d","e"," ","C","o","d","e">>
ConfirmPhrases == {<<"(","y","/","n",")">>, <<"y","e","s","/","n","o">>,
                   <<"c","o","n","f","i","r","m">>, <<"c","o","n","t","i","n","u","e","?">>}
ChoicePhrases == {<<"1",".">>, <<"2",".">>, <<"3",".">>,
                  <<"s","e","l","e","c","t">>, <<"c","h","o","o","s","e">>}
ThinkingPhrases == {<<"t","h","i","n","k","i","n","g">>, <<"p","r","o","c","e","s","s","i","n","g">>}
ErrorPhrases == {<<"e","r","r","o","r">>, <<"f","a","i","l","e","d">>}
ModelOpus == <<"S","e","t"," ","m","o","d","e","l"," ","t","o"," ","o","p","u","s">>
ModelDefault == <<"S","e","t"," ","m","o","d","e","l"," ","t","o"," ","D","e","f","a","u","l","t">>
ModelSonnet == <<"S","e","t"," ","m","o","d","e","l"," ","t","o"," ","s","o","n","n","e","t">>
AutoGlyphs == <<"U23F5","U23F5">>

\* any(phrase in text for phrase in phrases)
AnyIn(phrases, text) == \E p \in phrases : Contains(text, p)

----------------------------------------------------------------------------
(* ClaudeState of the wrapper *)

\* ClaudeState.__init__
ClaudeState_init(now) ==
    [mode |-> "unknown", model |-> "unknown", current_prompt |-> <<>>,
     buffer |-> <<>>, last_update |-> now]

\* Truncate keeping the oldest characters: self.buffer[:2000]
Truncate_KeepOldest(buffer) ==
    IF Len(buffer) > BufferCap THEN SubSeq(buffer, 1, BufferCap) ELSE buffer

\* if len(self.buffer) > 2000: self.buffer = self.buffer[-2000:]
Truncate(buffer) ==
    IF Len(buffer) > BufferCap
    THEN SubSeq(buffer, Len(buffer) - BufferCap + 1, Len(buffer))
    ELSE buffer

\* MatchedRule with the error phrases tested before the confirmation phrases
MatchedRule_ErrorFirst(text) ==
    LET lower_text == Lower(text) IN
    IF Contains(text, AutoAcceptMarker) THEN "auto-accept"
    ELSE IF Contains(text, PlanMarker) THEN "plan"
    ELSE IF Contains(text, ShortcutsMarker) THEN "shortcuts"
    ELSE IF Contains(text, ExitMarker) THEN "exit-confirm"
    ELSE IF Contains(text, WelcomeMarker) THEN "startup"
    ELSE IF AnyIn(ErrorPhrases, lower_text) THEN "error"
    ELSE IF AnyIn(ConfirmPhrases, lower_text) THEN "confirmation"
    ELSE IF AnyIn(ChoicePhrases, lower_text) THEN "choice"
    ELSE IF AnyIn(ThinkingPhrases, lower_text) THEN "thinking"
    ELSE IF Contains(text, ModelOpus) THEN "model-opus"
    ELSE IF Contains(text, ModelDefault) \/ Contains(text, ModelSonnet) THEN "model-sonnet"
    ELSE IF Contains(text, <<">">>) /\ ~Contains(text, AutoGlyphs) THEN "fallback"
    ELSE "none"

\* MatchedRule with the plan marker tested before the auto-accept marker
MatchedRule_PlanFirst(text) ==
    LET lower_text == Lower(text) IN
    IF Contains(text, PlanMarker) THEN "plan"
    ELSE IF Contains(text, AutoAcceptMarker) THEN "auto-accept"
    ELSE IF Contains(text, ShortcutsMarker) THEN "shortcuts"
    ELSE IF Contains(text, ExitMarker) THEN "exit-confirm"
    ELSE IF Contains(text, WelcomeMarker) THEN "startup"
    ELSE IF AnyIn(ConfirmPhrases, lower_text) THEN "confirmation"
    ELSE IF AnyIn(ChoicePhrases, lower_text) THEN "choice"
    ELSE IF AnyIn(ThinkingPhrases, lower_text) THEN "thinking"
    ELSE IF AnyIn(ErrorPhrases, lower_text) THEN "error"
    ELSE IF Contains(text, ModelOpus) THEN "model-opus"
    ELSE IF Contains(text, ModelDefault) \/ Contains(text, ModelSonnet) THEN "model-sonnet"
    ELSE IF Contains(text, <<">">>) /\ ~Contains(text, AutoGlyphs) THEN "fallback"
    ELSE "none"

\* MatchedRule with the bare ">" tested before the model announcements
MatchedRule_FallbackFirst(text) ==
    LET lower_text == Lower(text) IN
    IF Contains(text, AutoAcceptMarker) THEN "auto-accept"
    ELSE IF Contains(text, PlanMarker) THEN "plan"
    ELSE IF Contains(text, ShortcutsMarker) THEN "shortcuts"
    ELSE IF Contains(text, ExitMarker) THEN "exit-confirm"
    ELSE IF Contains(text, WelcomeMarker) THEN "startup"
    ELSE IF AnyIn(ConfirmPhrases, lower_text) THEN "confirmation"
    ELSE IF AnyIn(ChoicePhrases, lower_text) THEN "choice"
    ELSE IF AnyIn(ThinkingPhrases, lower_text) THEN "thinking"
    ELSE IF AnyIn(ErrorPhrases, lower_text) THEN "error"
    ELSE IF Contains(text, <<">">>) /\ ~Contains(text, AutoGlyphs) THEN "fallback"
    ELSE IF Contains(text, ModelOpus) THEN "model-opus"
    ELSE IF Contains(text, ModelDefault) \/ Contains(text, ModelSonnet) THEN "model-sonnet"
    ELSE "none"

\* the conditions of the if/elif chain of parse_output, in the order the code
\* tests them: the first that holds names the only branch taken
MatchedRule(text) ==
    LET lower_text == Lower(text) IN
    IF Contains(text, AutoAcceptMarker) THEN "auto-accept"
    ELSE IF Contains(text, PlanMarker) THEN "plan"
    ELSE IF Contains(text, ShortcutsMarker) THEN "shortcuts"
    ELSE IF Contains(text, ExitMarker) THEN "exit-confirm"
    ELSE IF Contains(text, WelcomeMarker) THEN "startup"
    ELSE IF AnyIn(ConfirmPhrases, lower_text) THEN "confirmation"
    ELSE IF AnyIn(ChoicePhrases, lower_text) THEN "choice"
    ELSE IF AnyIn(ThinkingPhrases, lower_text) THEN "thinking"
    ELSE IF AnyIn(ErrorPhrases, lower_text) THEN "error"
    ELSE IF Contains(text, ModelOpus) THEN "model-opus"
    ELSE IF Contains(text, ModelDefault) \/ Contains(text, ModelSonnet) THEN "model-sonnet"
    ELSE IF Contains(text, <<">">>) /\ ~Contains(text, AutoGlyphs) THEN "fallback"
    ELSE "none"

\* ApplyRule naming the plan mode as the simplified variant does
ApplyRule_Planning(self, rule) ==
    CASE rule = "auto-accept"  -> [self EXCEPT !.mode = "auto-accept"]
      [] rule = "plan"         -> [self EXCEPT !.mode = "planning"]
      [] rule = "shortcuts"    -> [self EXCEPT !.mode = "interactive"]
      [] rule = "exit-confirm" -> [self EXCEPT !.mode = "exit-confirm"]
      [] rule = "startup"      -> [self EXCEPT !.mode = "startup"]
      [] rule = "confirmation" -> [self EXCEPT !.mode = "confirmation"]
      [] rule = "choice"       -> [self EXCEPT !.mode = "choice"]
      [] rule = "thinking"     -> [self EXCEPT !.mode = "thinking"]
      [] rule = "error"        -> [self EXCEPT !.mode = "error"]
      [] rule = "model-opus"   -> [self EXCEPT !.model = "opus"]
      [] rule = "model-sonnet" -> [self EXCEPT !.model = "sonnet"]
      [] rule = "fallback"     -> [self EXCEPT !.mode = "interactive"]
      [] OTHER                 -> self

\* ApplyRule resetting the mode when no branch is taken
ApplyRule_Reset(self, rule) ==
    CASE rule = "auto-accept"  -> [self EXCEPT !.mode = "auto-accept"]
      [] rule = "plan"         -> [self EXCEPT !.mode = "plan"]
      [] rule = "shortcuts"    -> [self EXCEPT !.mode = "interactive"]
      [] rule = "exit-confirm" -> [self EXCEPT !.mode = "exit-confirm"]
      [] rule = "startup"      -> [self EXCEPT !.mode = "startup"]
      [] rule = "confirmation" -> [self EXCEPT !.mode = "confirmation"]
      [] rule = "choice"       -> [self EXCEPT !.mode = "choice"]
      [] rule = "thinking"     -> [self EXCEPT !.mode = "thinking"]
      [] rule = "error"        -> [self EXCEPT !.mode = "error"]
      [] rule = "model-opus"   -> [self EXCEPT !.model = "opus"]
      [] rule = "model-sonnet" -> [self EXCEPT !.model = "sonnet"]
      [] rule = "fallback"     -> [self EXCEPT !.mode = "interactive"]
      [] OTHER                 -> [self EXCEPT !.mode = "unknown"]

\* the body of the branch taken
ApplyRule(self, rule) ==
    CASE rule = "auto-accept"  -> [self EXCEPT !.mode = "auto-accept"]
      [] rule = "plan"         -> [self EXCEPT !.mode = "plan"]
      [] rule = "shortcuts"    -> [self EXCEPT !.mode = "interactive"]
      [] rule = "exit-confirm" -> [self EXCEPT !.mode = "exit-confirm"]
      [] rule = "startup"      -> [self EXCEPT !.mode = "startup"]
      [] rule = "confirmation" -> [self EXCEPT !.mode = "confirmation"]
      [] rule = "choice"       -> [self EXCEPT !.mode = "choice"]
      [] rule = "thinking"     -> [self EXCEPT !.mode = "thinking"]
      [] rule = "error"        -> [self EXCEPT !.mode = "error"]
      [] rule = "model-opus"   -> [self EXCEPT !.model = "opus"]
      [] rule = "model-sonnet" -> [self EXCEPT !.model = "sonnet"]
      [] rule = "fallback"     -> [self EXCEPT !.mode = "interactive"]
      [] OTHER                 -> self

\* the state detection of parse_output
Classify(self, text) == ApplyRule(self, MatchedRule(text))

\* index of the first character of s in set, 0 when there is none
FirstIn(s, set) ==
    IF \E i \in 1..Len(s) : s[i] \in set
    THEN CHOOSE i \in 1..Len(s) : s[i] \in set /\ \A j \in 1..(i-1) : s[j] \notin set
    ELSE 0

\* index of the first character of s not in set, 0 when there is none
FirstNotIn(s, set) ==
    IF \E i \in 1..Len(s) : s[i] \notin set
    THEN CHOOSE i \in 1..Len(s) : s[i] \notin set /\ \A j \in 1..(i-1) : s[j] \in set
    ELSE 0

\* index of the last character of s in set, 0 when there is none
LastIn(s, set) ==
    IF \E i \in 1..Len(s) : s[i] \in set
    THEN CHOOSE i \in 1..Len(s) : s[i] \in set /\ \A j \in (i+1)..Len(s) : s[j] \notin set
    ELSE 0

\* index of the last character of s not in set, 0 when there is none
LastNotIn(s, set) ==
    IF \E i \in 1..Len(s) : s[i] \notin set
    THEN CHOOSE i \in 1..Len(s) : s[i] \notin set /\ \A j \in (i+1)..Len(s) : s[j] \in set
    ELSE 0

\* str.strip()
Strip(s) ==
    IF FirstNotIn(s, Whitespace) = 0 THEN <<>>
    ELSE SubSeq(s, FirstNotIn(s, Whitespace), LastNotIn(s, Whitespace))

AnsiParams == {"0","1","2","3","4","5","6","7","8","9",";"}
AnsiFinal == {"m", "K"}

\* length of the match of \x1b\[[0-9;]*[mK] at the head of s, 0 when the
\* pattern does not match there ([0-9;]* is greedy, and no parameter
\* character is a final character, so the match is unique)
AnsiMatchLen(s) ==
    IF Len(s) < 3 \/ s[1] # ESC \/ s[2] # "[" THEN 0
    ELSE LET rest == SubSeq(s, 3, Len(s))
             k == FirstNotIn(rest, AnsiParams)
         IN IF k # 0 /\ rest[k] \in AnsiFinal THEN 2 + k ELSE 0

\* re.sub(r'\x1b\[[0-9;]*[mK]', '', s): leftmost matches, left to right
RECURSIVE StripAnsi(_)
StripAnsi(s) ==
    LET e == FirstIn(s, {ESC}) IN
    IF e = 0 THEN s
    ELSE LET tail == SubSeq(s, e, Len(s))
             m == AnsiMatchLen(tail)
         IN IF m > 0
            THEN SubSeq(s, 1, e - 1) \o StripAnsi(SubSeq(tail, m + 1, Len(tail)))
            ELSE SubSeq(s, 1, e) \o StripAnsi(SubSeq(tail, 2, Len(tail)))

\* clean_line and '>' in clean_line and not clean_line.startswith('[')
IsPromptLine(clean_line) ==
    /\ clean_line # <<>>
    /\ Contains(clean_line, <<">">>)
    /\ clean_line[1] # "["

\* ScanReversed emptying current_prompt when no line is a prompt line
RECURSIVE ScanReversed_Clears(_, _)
ScanReversed_Clears(clean_buffer, current_prompt) ==
    LET nl == LastIn(clean_buffer, {"\n"})
        clean_line == Strip(SubSeq(clean_buffer, nl + 1, Len(clean_buffer)))
    IN IF IsPromptLine(clean_line) THEN clean_line
       ELSE IF nl = 0 THEN <<>>
       ELSE ScanReversed_Clears(SubSeq(clean_buffer, 1, nl - 1), current_prompt)

\* for line in reversed(clean_buffer.split('\n')): the first line, from the
\* end, that is a prompt line replaces current_prompt; none leaves it
RECURSIVE ScanReversed(_, _)
ScanReversed(clean_buffer, current_prompt) ==
    LET nl == LastIn(clean_buffer, {"\n"})
        clean_line == Strip(SubSeq(clean_buffer, nl + 1, Len(clean_buffer)))
    IN IF IsPromptLine(clean_line) THEN clean_line
       ELSE IF nl = 0 THEN current_prompt
       ELSE ScanReversed(SubSeq(clean_buffer, 1, nl - 1), current_prompt)

\* ExtractPrompt without the removal of the ANSI codes
ExtractPrompt_NoStrip(buffer, current_prompt) ==
    ScanReversed(buffer, current_prompt)

\* the prompt extraction of parse_output
ExtractPrompt(buffer, current_prompt) ==
    ScanReversed(StripAnsi(buffer), current_prompt)

\* parse_output with the state detection applied to the accumulated buffer
parse_output_FromBuffer(self, data, now) ==
    LET text == Decode(data)
        buffered == [self EXCEPT !.buffer = Truncate(self.buffer \o text),
                                 !.last_update = now]
        classified == Classify(buffered, buffered.buffer)
    IN [classified EXCEPT
          !.current_prompt = ExtractPrompt(classified.buffer, classified.current_prompt)]

\* ClaudeState.parse_output
parse_output(self, data, now) ==
    LET text == Decode(data)
        buffered == [self EXCEPT !.buffer = Truncate(self.buffer \o text),
                                 !.last_update = now]
        classified == Classify(buffered, text)
    IN [classified EXCEPT
          !.current_prompt = ExtractPrompt(classified.buffer, classified.current_prompt)]

\* ClaudeState._get_button_config
get_button_config(self) ==
    LET default_config == [shift_tab_icon |-> "default", shift_tab_label |-> "Normal",
                           shift_tab_enabled |-> TRUE, context_hint |-> ""]
        over(icon, label, hint) == [default_config EXCEPT !.shift_tab_icon = icon,
                                       !.shift_tab_label = label, !.context_hint = hint]
    IN CASE self.mode = "auto-accept" -> over("auto-accept", "Auto", "Auto-accept mode active")
         [] self.mode = "plan" -> over("plan", "Plan", "Plan mode active")
         [] self.mode = "exit-confirm" -> over("warning", "Exit?", "Press Ctrl+C again to exit")
         [] self.mode = "confirmation" -> over("confirm", "Confirm", "Confirmation required")
         [] self.mode = "choice" -> over("choose", "Choose", "Selection required")
         [] self.mode = "thinking" -> over("default", "Normal", "Claude is thinking...")
         [] self.mode = "error" -> over("error", "Error", "Error state")
         [] self.mode = "startup" -> over("startup", "Start", "Claude Code starting up")
         [] self.mode = "interactive" -> over("interactive", "Ready", "Ready for input")
         [] OTHER -> default_config

\* ClaudeState.get_state
get_state(self) ==
    [mode |-> self.mode, model |-> self.model, prompt |-> self.current_prompt,
     last_update |-> self.last_update, buffer_size |-> Len(self.buffer),
     button_config |-> get_button_config(self)]

----------------------------------------------------------------------------
(* ClaudeState of the simplified variant *)

PlanningPhrases == {<<"p","l","a","n","n","i","n","g"," ","m","o","d","e">>, <<"/","p","l","a","n">>}
AutoPhrases == {<<"a","u","t","o","-","a","c","c","e","p","t">>, <<"/","a","u","t","o">>}
WelcomeLower == <<"w","e","l","c","o","m","e"," ","t","o"," ","c","l","a","u","d","e"," ","c","o","d","e">>

\* ClaudeState.__init__
Simple_ClaudeState_init(now) ==
    [mode |-> "unknown", current_prompt |-> <<>>, buffer |-> <<>>, last_update |-> now]

\* if len(self.buffer) > 1000: self.buffer = self.buffer[-1000:]
Simple_Truncate(buffer) ==
    IF Len(buffer) > SimpleBufferCap
    THEN SubSeq(buffer, Len(buffer) - SimpleBufferCap + 1, Len(buffer))
    ELSE buffer

Simple_Classify(self, text) ==
    LET lower_text == Lower(text) IN
    IF AnyIn(PlanningPhrases, lower_text) THEN [self EXCEPT !.mode = "planning"]
    ELSE IF AnyIn(AutoPhrases, lower_text) THEN [self EXCEPT !.mode = "auto-accept"]
    ELSE IF Contains(lower_text, WelcomeLower) THEN [self EXCEPT !.mode = "interactive"]
    ELSE IF Contains(text, <<">">>) THEN [self EXCEPT !.mode = "interactive"]
    ELSE self

\* if clean_line and '>' in clean_line
Simple_IsPromptLine(clean_line) ==
    clean_line # <<>> /\ Contains(clean_line, <<">">>)

RECURSIVE Simple_ScanReversed(_, _)
Simple_ScanReversed(buffer, current_prompt) ==
    LET nl == LastIn(buffer, {"\n"})
        clean_line == Strip(SubSeq(buffer, nl + 1, Len(buffer)))
    IN IF Simple_IsPromptLine(clean_line) THEN clean_line
       ELSE IF nl = 0 THEN current_prompt
       ELSE Simple_ScanReversed(SubSeq(buffer, 1, nl - 1), current_prompt)

\* ClaudeState.parse_output
Simple_parse_output(self, data, now) ==
    LET text == Decode(data)
        buffered == [self EXCEPT !.buffer = Simple_Truncate(self.buffer \o text),
                                 !.last_update = now]
        classified == Simple_Classify(buffered, text)
    IN [classified EXCEPT
          !.current_prompt = Simple_ScanReversed(classified.buffer, classified.current_prompt)]

\* ClaudeState.get_state
Simple_get_state(self) ==
    [mode |-> self.mode, prompt |-> self.current_prompt,
     last_update |-> self.last_update, buffer_size |-> Len(self.buffer)]

----------------------------------------------------------------------------
(* Chunks of child output.  A chunk is what one os.read of the master       *)
(* descriptor returns: between 1 and ReadSize bytes, here the concatenation *)
(* of pieces of a vocabulary.                                               *)

RECURSIVE Concat(_)
Concat(ps) == IF ps = <<>> THEN <<>> ELSE Head(ps) \o Concat(Tail(ps))

Fill(n) == [i \in 1..n |-> "x"]

\* the first and the second part of the auto-accept marker, cut inside it
AutoAcceptHead == SubSeq(Encode(AutoAcceptMarker), 1, 14)
AutoAcceptTail == SubSeq(Encode(AutoAcceptMarker), 15, Len(Encode(AutoAcceptMarker)))

\* pieces that exercise the classification rules
RulePieces ==
    { Encode(AutoAcceptMarker), Encode(PlanMarker), Encode(ShortcutsMarker),
      Encode(ExitMarker), Encode(WelcomeMarker),
      <<"(","Y","/","n",")">>, <<"2",".">>, <<"T","h","i","n","k","i","n","g">>,
      <<"e","r","r","o","r">>, Encode(ModelOpus), Encode(ModelDefault),
      Encode(ModelSonnet), <<">">>, <<"E2","8F","B5","E2","8F","B5">>, <<"o","k">>,
      AutoAcceptHead, AutoAcceptTail }

\* pieces that exercise the buffer and the prompt extraction
TextPieces ==
    { Fill(ReadSize), Fill(BufferCap - ReadSize),
      <<ESC,"[","3","2","m","f","o","o",">",ESC,"[","0","m","\n">>,
      <<"[","l","o","g","]","\n">>,
      <<"b","a","r",">"," ">>,
      <<"\n"," ","\t","[","x",">","\n">>,
      <<"a",">","E2","8F",ESC,"[","1",";">>,
      <<"K","y","FF","\r","\n">> }

\* a mode pattern of the wrapper's parse_output occurs in text
ModePatternIn(text) ==
    \/ \E m \in {AutoAcceptMarker, PlanMarker, ShortcutsMarker, ExitMarker, WelcomeMarker} :
          Contains(text, m)
    \/ AnyIn(ConfirmPhrases \cup ChoicePhrases \cup ThinkingPhrases \cup ErrorPhrases,
             Lower(text))
    \/ Contains(text, <<">">>)

\* a mode pattern of the simplified parse_output occurs in text
Simple_ModePatternIn(text) ==
    \/ AnyIn(PlanningPhrases \cup AutoPhrases \cup {WelcomeLower}, Lower(text))
    \/ Contains(text, <<">">>)

----------------------------------------------------------------------------
(* Initial state: the objects as constructed *)

ClsInit(variants) ==
    /\ variant \in variants
    /\ clock = 0
    /\ state = IF variant = "wrapper" THEN ClaudeState_init(0)
                                      ELSE Simple_ClaudeState_init(0)
    /\ lastChunk = <<>>
    /\ prev = state
    /\ allText = <<>>
    /\ ingests = 0
    /\ fed = 0
    /\ seenModeRule = FALSE

\* ClaudeWrapper.__init__
SysInit ==
    /\ debug_handle = "None"
    /\ running = FALSE
    /\ master_fd = "None"
    /\ fdOpen = FALSE
    /\ claude_pid = "None"
    /\ child = "none"
    /\ original_settings = "None"
    /\ term = "cooked"
    /\ http_server = "None"
    /\ srv = "none"
    /\ shutdown_request = FALSE
    /\ is_shut_down = FALSE
    /\ mainPc = "start"
    /\ httpPc = "idle"
    /\ ready = {}
    /\ rdata = <<>>
    /\ trigger = "none"
    /\ command = <<>>
    /\ pending = <<>>
    /\ requests = <<>>
    /\ ptyOut = <<>>
    /\ stdinBuf = <<>>
    /\ masterLog = <<>>
    /\ termOut = <<>>
    /\ cleanupLog = <<>>
    /\ cleanupCalls = 0
    /\ runCleanups = 0
    /\ closeFailed = {}
    /\ typed = 0
    /\ posted = 0
    /\ exec = "none"
    /\ exit_status = "running"
    /\ reply = [code |-> "none", body |-> <<>>]

\* self.state.parse_output(chunk) with the history it leaves
ParseCall(chunk) ==
    /\ variant' = variant
    /\ clock' = clock + 1
    /\ state' = IF variant = "wrapper"
                THEN parse_output(state, chunk, clock + 1)
                ELSE Simple_parse_output(state, chunk, clock + 1)
    /\ lastChunk' = chunk
    /\ prev' = state
    /\ allText' = allText \o Decode(chunk)
    /\ ingests' = ingests + 1
    /\ seenModeRule' = (seenModeRule \/ IF variant = "wrapper"
                                        THEN ModePatternIn(Decode(chunk))
                                        ELSE Simple_ModePatternIn(Decode(chunk)))

\* the child writes k pieces of a vocabulary and one os.read returns them as
\* one chunk of at most ReadSize bytes
Feed(pieces) ==
    \E k \in 1..(MaxPieces - fed) :
        \E ps \in [1..k -> pieces] :
            /\ Len(Concat(ps)) <= ReadSize
            /\ fed' = fed + k
            /\ ParseCall(Concat(ps))
            /\ UNCHANGED sysVars

IngestRules == Feed(RulePieces)

IngestText == Feed(TextPieces)

NextRules == IngestRules

NextText == IngestText

\* the classifier fed with chunks that exercise the rules
InitRules == ClsInit({"wrapper"}) /\ SysInit

SpecRules == InitRules /\ [][NextRules]_vars

\* the classifier of both variants fed with chunks that exercise the buffer
\* and the prompt
InitText == ClsInit({"wrapper", "simple"}) /\ SysInit

SpecText == InitText /\ [][NextText]_vars


----------------------------------------------------------------------------
(* The environment of the wrapper: the child, the user, the interrupt *)

\* the positions of the main thread inside the loop of run()
LoopPcs == {"loop_test", "select", "read_master", "forward", "read_stdin", "probe"}

\* what the child can write to its terminal
SysPieces == { <<">">>, Encode(PlanMarker) }

\* what the user can type
Keys == { <<"x">> }

\* the commands a client can post: a line command, an arrow key, the empty
\* one, a character outside ASCII, a string that holds a lone surrogate
Commands == { <<"h","e","l","p">>, <<ESC,"[","A">>, <<>>, <<"U23F5">>, <<"UD800">> }

\* the child writes a piece of output to its terminal. The loop learns of
\* output in select and takes all of it in one os.read, so output written
\* later in an iteration has the effect of output written before the select
\* that sees it; output written once the loop has ended is never read.
ChildWrite ==
    /\ child = "alive"
    /\ exec = "found"
    /\ mainPc = "select"
    /\ fed + typed + posted < MaxEvents
    /\ \E piece \in SysPieces :
          /\ Len(ptyOut \o piece) <= ReadSize
          /\ ptyOut' = ptyOut \o piece
    /\ fed' = fed + 1
    /\ UNCHANGED <<variant, state, clock, lastChunk, prev, allText, ingests, seenModeRule>>
    /\ UNCHANGED <<wrapVars, child, srv, shutdown_request, is_shut_down, stdinBuf,
                   mainVars, httpVars, histVars>>
    /\ UNCHANGED <<procVars, getVars>>

\* an exited child stays in the process table until it is waited for
\* ("zombie"); the kernel discards it at once when the program was started
\* with SIGCHLD ignored, a disposition that fork and exec pass on ("reaped").
\* That start is considered for a claude that runs, not for the missing one.
Exited == {"zombie", "reaped"}

\* claude exits, by itself or because of a signal it received
ChildExit ==
    /\ child = "alive"
    /\ exec = "found"
    /\ exit_status = "running"
    /\ child' \in Exited
    /\ UNCHANGED <<clsVars, wrapVars, srv, shutdown_request, is_shut_down, ptyOut, stdinBuf,
                   mainVars, httpVars, histVars>>
    /\ UNCHANGED <<procVars, getVars>>

\* what the forked child prints when os.execvp raises FileNotFoundError, as
\* it leaves the terminal (a line feed leaves as carriage return, line feed)
NotFoundMessage ==
    << "E","r","r","o","r",":"," ","'","c","l","a","u","d","e","'"," ",
       "c","o","m","m","a","n","d"," ","n","o","t"," ","f","o","u","n","d","."," ",
       "M","a","k","e"," ","s","u","r","e"," ","C","l","a","u","d","e"," ",
       "C","o","d","e"," ","i","s"," ","i","n","s","t","a","l","l","e","d",".",
       "\r","\n" >>

\* the forked child when 'claude' is not on the search path: except
\* FileNotFoundError: print(...); sys.exit(1) -- the child prints to its
\* terminal and the child, not the program that forked it, exits with status 1
ExecFails ==
    /\ exec = "not_found"
    /\ child = "alive"
    /\ exit_status = "running"
    /\ ptyOut' = ptyOut \o NotFoundMessage
    /\ child' = "zombie"
    /\ UNCHANGED <<clsVars, wrapVars, srv, shutdown_request, is_shut_down, stdinBuf,
                   mainVars, httpVars, histVars, procVars, getVars>>

\* the user types at the local terminal: as for the child's output, input is
\* seen by select and taken whole by one os.read
UserType ==
    /\ mainPc = "select"
    /\ fed + typed + posted < MaxEvents
    /\ \E keys \in Keys : stdinBuf' = stdinBuf \o keys
    /\ typed' = typed + 1
    /\ UNCHANGED <<clsVars, wrapVars, child, srv, shutdown_request, is_shut_down, ptyOut,
                   mainVars, httpVars, masterLog, termOut, cleanupLog, cleanupCalls,
                   runCleanups, closeFailed, posted>>
    /\ UNCHANGED <<procVars, getVars>>

----------------------------------------------------------------------------
(* ClaudeWrapper.run, the main thread *)

\* AfterLoop with an except clause that returns without the finally clause
AfterLoop_InterruptSkipsFinally(trig) ==
    IF trig = "interrupt" THEN "done" ELSE "finally"

\* try: while ... finally: self.cleanup() -- whatever ends the loop (a break,
\* the KeyboardInterrupt caught by the except clause) goes to the finally clause
AfterLoop(trig) == "finally"

\* the loop of run() ends
Break(trig) ==
    /\ trigger' = trig
    /\ mainPc' = AfterLoop(trig)

\* start_claude(): open the debug file if one is configured (a file that cannot
\* be opened leaves debug_handle None), open the terminal pair, fork the child
StartClaude ==
    /\ mainPc = "start"
    /\ debug_handle' \in (IF variant = "wrapper" THEN {"open", "None"} ELSE {"None"})
    /\ master_fd' = "fd"
    /\ fdOpen' = TRUE
    /\ claude_pid' = "pid"
    /\ child' = "alive"
    /\ running' = TRUE
    /\ mainPc' = "setup_terminal"
    /\ UNCHANGED <<clsVars, original_settings, term, http_server, srv,
                   shutdown_request, is_shut_down, ptyOut, stdinBuf, ready, rdata, trigger,
                   httpVars, histVars>>
    /\ exec' \in {"found", "not_found"}
    /\ UNCHANGED <<exit_status, getVars>>

\* setup_terminal(): save the settings and go raw, or termios.error when the
\* standard input is no terminal
SetupTerminal ==
    /\ mainPc = "setup_terminal"
    /\ \/ original_settings' = "saved" /\ term' = "raw"
       \/ UNCHANGED <<original_settings, term>>
    /\ mainPc' = "start_thread"
    /\ UNCHANGED <<clsVars, debug_handle, running, master_fd, fdOpen, claude_pid,
                   http_server, envVars, ready, rdata, trigger, httpVars, histVars>>
    /\ UNCHANGED <<procVars, getVars>>

\* threading.Thread(target=self.start_http_server, daemon=True).start()
StartThread ==
    /\ mainPc = "start_thread"
    /\ httpPc' = "create"
    /\ mainPc' = "loop_test"
    /\ UNCHANGED <<clsVars, wrapVars, envVars, ready, rdata, trigger, command, pending,
                   requests, histVars>>
    /\ UNCHANGED <<procVars, getVars>>

\* while self.running:
LoopTest ==
    /\ mainPc = "loop_test"
    /\ IF running THEN mainPc' = "select" /\ UNCHANGED trigger
                  ELSE Break("stopped")
    /\ UNCHANGED <<clsVars, wrapVars, envVars, ready, rdata, httpVars, histVars>>
    /\ UNCHANGED <<procVars, getVars>>

\* the master descriptor is readable: output is pending or the child's side is closed
MasterReadable == ptyOut # <<>> \/ child # "alive"

\* ready, _, _ = select.select([self.master_fd, sys.stdin], [], [], 0.1)
Select ==
    /\ mainPc = "select"
    /\ ready' = (IF MasterReadable THEN {"master_fd"} ELSE {})
                  \cup (IF stdinBuf # <<>> THEN {"stdin"} ELSE {})
    /\ mainPc' = IF MasterReadable THEN "read_master"
                 ELSE IF stdinBuf # <<>> THEN "read_stdin" ELSE "probe"
    /\ UNCHANGED <<clsVars, wrapVars, envVars, rdata, trigger, httpVars, histVars>>
    /\ UNCHANGED <<procVars, getVars>>

\* ReadMaster handing the data to the terminal without parse_output
ReadMaster_Unparsed ==
    /\ mainPc = "read_master"
    /\ ptyOut # <<>>
    /\ rdata' = ptyOut
    /\ ptyOut' = <<>>
    /\ mainPc' = "forward"
    /\ UNCHANGED <<clsVars, wrapVars, child, srv, shutdown_request, is_shut_down, stdinBuf,
                   ready, trigger, httpVars, histVars>>
    /\ UNCHANGED <<procVars, getVars>>

\* data = os.read(self.master_fd, 1024) with pending output: parse_output(data)
ReadMaster ==
    /\ mainPc = "read_master"
    /\ ptyOut # <<>>
    /\ rdata' = ptyOut
    /\ ptyOut' = <<>>
    /\ ParseCall(ptyOut)
    /\ mainPc' = "forward"
    /\ UNCHANGED <<fed, wrapVars, child, srv, shutdown_request, is_shut_down, stdinBuf,
                   ready, trigger, httpVars, histVars>>
    /\ UNCHANGED <<procVars, getVars>>

\* data = os.read(self.master_fd, 1024) once the child's side is closed and
\* nothing is pending: an empty read, or OSError (EIO), and the loop breaks
ReadMasterClosed ==
    /\ mainPc = "read_master"
    /\ ptyOut = <<>>
    /\ \E trig \in {"eof", "io_error"} : Break(trig)
    /\ ready' = {}
    /\ UNCHANGED <<clsVars, wrapVars, envVars, rdata, httpVars, histVars>>
    /\ UNCHANGED <<procVars, getVars>>

\* sys.stdout.buffer.write(data); sys.stdout.buffer.flush(): the data reaches
\* the local terminal, or the write raises OSError and the loop breaks
Forward ==
    /\ mainPc = "forward"
    /\ rdata' = <<>>
    /\ \/ /\ termOut' = termOut \o rdata
          /\ mainPc' = IF "stdin" \in ready THEN "read_stdin" ELSE "probe"
          /\ UNCHANGED <<ready, trigger>>
       \/ /\ Break("io_error")
          /\ ready' = {}
          /\ UNCHANGED termOut
    /\ UNCHANGED <<clsVars, wrapVars, envVars, httpVars, masterLog,
                   cleanupLog, cleanupCalls, runCleanups, closeFailed, typed, posted>>
    /\ UNCHANGED <<procVars, getVars>>

\* os.write on the master descriptor can fail: always when the descriptor is
\* closed (EBADF), possibly when the child has exited (EIO)
WriteCanFail == ~fdOpen \/ child # "alive"
WriteCanSucceed == fdOpen

\* ReadStdin giving the user's input to parse_output as well
ReadStdin_Classified ==
    /\ mainPc = "read_stdin"
    /\ stdinBuf' = <<>>
    /\ ParseCall(stdinBuf)
    /\ \/ /\ WriteCanSucceed
          /\ masterLog' = Append(masterLog, [by |-> "loop", req |-> 0, part |-> "input",
                                             bytes |-> stdinBuf])
          /\ mainPc' = "probe"
          /\ UNCHANGED trigger
       \/ /\ WriteCanFail
          /\ Break("io_error")
          /\ UNCHANGED masterLog
    /\ ready' = {}
    /\ UNCHANGED <<fed, wrapVars, child, srv, shutdown_request, is_shut_down, ptyOut,
                   rdata, httpVars, termOut, cleanupLog, cleanupCalls, runCleanups,
                   closeFailed, typed, posted>>
    /\ UNCHANGED <<procVars, getVars>>

\* data = os.read(sys.stdin.fileno(), 1024); os.write(self.master_fd, data)
ReadStdin ==
    /\ mainPc = "read_stdin"
    /\ stdinBuf' = <<>>
    /\ \/ /\ WriteCanSucceed
          /\ masterLog' = Append(masterLog, [by |-> "loop", req |-> 0, part |-> "input",
                                             bytes |-> stdinBuf])
          /\ mainPc' = "probe"
          /\ UNCHANGED trigger
       \/ /\ WriteCanFail
          /\ Break("io_error")
          /\ UNCHANGED masterLog
    /\ ready' = {}
    /\ UNCHANGED <<clsVars, wrapVars, child, srv, shutdown_request, is_shut_down, ptyOut,
                   rdata, httpVars, termOut, cleanupLog, cleanupCalls, runCleanups,
                   closeFailed, typed, posted>>
    /\ UNCHANGED <<procVars, getVars>>

\* Probe breaking the loop when waitpid raises
Probe_ErrorBreaks ==
    /\ mainPc = "probe"
    /\ IF child \in {"zombie", "reaped"}
       THEN child' = "reaped" /\ Break("child_exit")
       ELSE mainPc' = "loop_test" /\ UNCHANGED <<child, trigger>>
    /\ ready' = {}
    /\ UNCHANGED <<clsVars, wrapVars, srv, shutdown_request, is_shut_down, ptyOut, stdinBuf,
                   rdata, httpVars, histVars>>
    /\ UNCHANGED <<procVars, getVars>>

\* pid, status = os.waitpid(self.claude_pid, os.WNOHANG): an exited child is
\* reaped and the loop breaks; a running child gives (0, 0) and a child that
\* is no longer in the process table raises ChildProcessError, an OSError the
\* except clause passes over: the loop goes on in both cases
Probe ==
    /\ mainPc = "probe"
    /\ IF child = "zombie"
       THEN child' = "reaped" /\ Break("child_exit")
       ELSE mainPc' = "loop_test" /\ UNCHANGED <<child, trigger>>
    /\ ready' = {}
    /\ UNCHANGED <<clsVars, wrapVars, srv, shutdown_request, is_shut_down, ptyOut, stdinBuf,
                   rdata, httpVars, histVars>>
    /\ UNCHANGED <<procVars, getVars>>

\* SIGINT raises KeyboardInterrupt in the main thread, anywhere in the loop
Interrupt ==
    /\ mainPc \in LoopPcs
    /\ Break("interrupt")
    /\ ready' = {}
    /\ rdata' = <<>>
    /\ UNCHANGED <<clsVars, wrapVars, envVars, httpVars, histVars>>
    /\ UNCHANGED <<procVars, getVars>>

\* finally: self.cleanup()
Finally ==
    /\ mainPc = "finally"
    /\ mainPc' = "c_running"
    /\ cleanupCalls' = cleanupCalls + 1
    /\ runCleanups' = runCleanups + 1
    /\ UNCHANGED <<clsVars, wrapVars, envVars, ready, rdata, trigger, httpVars, masterLog,
                   termOut, cleanupLog, closeFailed, typed, posted>>
    /\ UNCHANGED <<procVars, getVars>>


\* main(): wrapper.run() returned and main returns: the program exits with
\* status 0, its daemon thread with it
MainReturn ==
    /\ mainPc = "done"
    /\ mainPc' = "exited"
    /\ exit_status' = "0"
    /\ UNCHANGED <<clsVars, wrapVars, envVars, ready, rdata, trigger, httpVars, histVars,
                   exec, getVars>>

\* main(): the exception that left cleanup leaves run and main: the
\* interpreter prints the traceback and the program exits with status 1
MainRaise ==
    /\ mainPc = "raised"
    /\ mainPc' = "exited"
    /\ exit_status' = "1"
    /\ UNCHANGED <<clsVars, wrapVars, envVars, ready, rdata, trigger, httpVars, histVars,
                   exec, getVars>>

----------------------------------------------------------------------------
(* ClaudeWrapper.cleanup, run by the main thread *)

\* cleanup closing the master descriptor before it stops the server
AfterStep_CloseBeforeServer(step) ==
    CASE step = "c_running" -> "c_debug"
      [] step = "c_debug"   -> "c_restore"
      [] step = "c_restore" -> "c_close"
      [] step = "c_close"   -> "c_server"
      [] step = "c_server"  -> "c_term"
      [] step = "c_term"    -> "done"

\* the order of the statements of cleanup
AfterStep(step) ==
    CASE step = "c_running" -> "c_debug"
      [] step = "c_debug"   -> "c_restore"
      [] step = "c_restore" -> "c_server"
      [] step = "c_server"  -> "c_close"
      [] step = "c_close"   -> "c_term"
      [] step = "c_term"    -> "done"

Logged(effect) == cleanupLog' = Append(cleanupLog, <<cleanupCalls, effect>>)

\* self.running = False
CRunning ==
    /\ mainPc = "c_running"
    /\ running' = FALSE
    /\ Logged("running_false")
    /\ mainPc' = AfterStep("c_running")
    /\ UNCHANGED <<clsVars, debug_handle, master_fd, fdOpen, claude_pid,
                   original_settings, term, http_server, envVars, ready, rdata, trigger,
                   httpVars, masterLog, termOut, cleanupCalls, runCleanups, closeFailed,
                   typed, posted>>
    /\ UNCHANGED <<procVars, getVars>>

\* if self.debug_handle: write the last line and close; writing to a handle
\* closed before raises ValueError, which is caught and printed
CDebug ==
    /\ mainPc = "c_debug"
    /\ IF debug_handle = "open"
       THEN debug_handle' = "closed" /\ Logged("debug_close")
       ELSE IF debug_handle = "closed"
       THEN Logged("print_error") /\ UNCHANGED debug_handle
       ELSE UNCHANGED <<debug_handle, cleanupLog>>
    /\ mainPc' = AfterStep("c_debug")
    /\ UNCHANGED <<clsVars, running, master_fd, fdOpen, claude_pid,
                   original_settings, term, http_server, envVars, ready, rdata, trigger,
                   httpVars, masterLog, termOut, cleanupCalls, runCleanups, closeFailed,
                   typed, posted>>
    /\ UNCHANGED <<procVars, getVars>>

\* if self.original_settings: termios.tcsetattr(...), termios.error is passed
CRestore ==
    /\ mainPc = "c_restore"
    /\ IF original_settings = "saved"
       THEN \/ term' = "cooked" /\ Logged("restore")
            \/ UNCHANGED <<term, cleanupLog>>
       ELSE UNCHANGED <<term, cleanupLog>>
    /\ mainPc' = AfterStep("c_restore")
    /\ UNCHANGED <<clsVars, debug_handle, running, master_fd, fdOpen, claude_pid,
                   original_settings, http_server, envVars, ready, rdata, trigger,
                   httpVars, masterLog, termOut, cleanupCalls, runCleanups, closeFailed,
                   typed, posted>>
    /\ UNCHANGED <<procVars, getVars>>

\* if self.http_server: self.http_server.shutdown() -- the request is made
CServer ==
    /\ mainPc = "c_server"
    /\ IF http_server = "None"
       THEN mainPc' = AfterStep("c_server") /\ UNCHANGED shutdown_request
       ELSE mainPc' = "c_wait" /\ shutdown_request' = TRUE
    /\ UNCHANGED <<clsVars, wrapVars, child, srv, is_shut_down, ptyOut, stdinBuf,
                   ready, rdata, trigger, httpVars, histVars>>
    /\ UNCHANGED <<procVars, getVars>>

\* shutdown() returns once serve_forever has returned; self.http_server.server_close()
CWait ==
    /\ mainPc = "c_wait"
    /\ is_shut_down
    /\ srv' = "closed"
    /\ IF srv = "listening" THEN Logged("server_stop") ELSE UNCHANGED cleanupLog
    /\ mainPc' = AfterStep("c_server")
    /\ UNCHANGED <<clsVars, wrapVars, child, shutdown_request, is_shut_down, ptyOut, stdinBuf,
                   ready, rdata, trigger, httpVars, masterLog, termOut, cleanupCalls,
                   runCleanups, closeFailed, typed, posted>>
    /\ UNCHANGED <<procVars, getVars>>

\* if self.master_fd: os.close(self.master_fd) -- outside any try: OSError
\* (EBADF when the descriptor is closed already, EIO) leaves cleanup
CClose ==
    /\ mainPc = "c_close"
    /\ IF master_fd = "None"
       THEN /\ mainPc' = AfterStep("c_close")
            /\ UNCHANGED <<fdOpen, cleanupLog, closeFailed>>
       ELSE \/ /\ fdOpen
               /\ fdOpen' = FALSE
               /\ Logged("close_master")
               /\ mainPc' = AfterStep("c_close")
               /\ UNCHANGED closeFailed
            \/ /\ fdOpen' = FALSE
               /\ closeFailed' = closeFailed \cup {cleanupCalls}
               /\ mainPc' = "raised"
               /\ UNCHANGED cleanupLog
    /\ UNCHANGED <<clsVars, debug_handle, running, master_fd, claude_pid,
                   original_settings, term, http_server, envVars, ready, rdata, trigger,
                   httpVars, masterLog, termOut, cleanupCalls, runCleanups, typed, posted>>
    /\ UNCHANGED <<procVars, getVars>>

\* os.kill(self.claude_pid, sig) and where cleanup goes next.  While the child
\* is in the process table, running or exited, the signal is sent to it.  Once
\* the child is out of the table its pid is free or belongs to a process
\* started since: os.kill raises ProcessLookupError, which is passed, or the
\* signal is sent to that process, or os.kill raises PermissionError (a
\* process of another user), which no except clause of cleanup catches
KillOutcome(effect, sent, passed) ==
    IF child \in {"alive", "zombie"}
    THEN Logged(effect) /\ mainPc' = sent
    ELSE \/ UNCHANGED cleanupLog /\ mainPc' = passed
         \/ Logged(effect) /\ mainPc' = sent
         \/ UNCHANGED cleanupLog /\ mainPc' = "raised"

\* if self.claude_pid: os.kill(self.claude_pid, 15); ProcessLookupError (the
\* child was reaped) is passed and ends cleanup
CTerm ==
    /\ mainPc = "c_term"
    /\ IF claude_pid = "None"
       THEN UNCHANGED cleanupLog /\ mainPc' = AfterStep("c_term")
       ELSE KillOutcome("sigterm", "c_sleep", AfterStep("c_term"))
    /\ UNCHANGED <<clsVars, wrapVars, envVars, ready, rdata, trigger, httpVars, masterLog,
                   termOut, cleanupCalls, runCleanups, closeFailed, typed, posted>>
    /\ UNCHANGED <<procVars, getVars>>

\* time.sleep(0.5); os.kill(self.claude_pid, 9)
CKill ==
    /\ mainPc = "c_sleep"
    /\ KillOutcome("sigkill", AfterStep("c_term"), AfterStep("c_term"))
    /\ child' = IF child = "alive" THEN "zombie" ELSE child
    /\ UNCHANGED <<clsVars, wrapVars, srv, shutdown_request, is_shut_down, ptyOut, stdinBuf,
                   ready, rdata, trigger, httpVars, masterLog, termOut, cleanupCalls,
                   runCleanups, closeFailed, typed, posted>>
    /\ UNCHANGED <<procVars, getVars>>

\* cleanup() is called again after it returned
CleanupAgain ==
    /\ mainPc = "done"
    /\ cleanupCalls >= 1
    /\ cleanupCalls < MaxCleanupCalls
    /\ cleanupCalls' = cleanupCalls + 1
    /\ mainPc' = "c_running"
    /\ UNCHANGED <<clsVars, wrapVars, envVars, ready, rdata, trigger, httpVars, masterLog,
                   termOut, cleanupLog, runCleanups, closeFailed, typed, posted>>
    /\ UNCHANGED <<procVars, getVars>>

----------------------------------------------------------------------------
(* The bodies of POST /command and their JSON *)

\* how JSON writes a character of a string made of printable ASCII other
\* than the quote and the backslash, of ESC, of characters outside ASCII
\* (ensure_ascii) and of lone surrogates
JsonEscapeChar(c) ==
    CASE c = ESC -> <<"\\", "u", "0", "0", "1", "b">>
      [] c = "U23F5" -> <<"\\", "u", "2", "3", "f", "5">>
      [] c = "UD800" -> <<"\\", "u", "d", "8", "0", "0">>
      [] OTHER -> <<c>>

\* json.dumps of such a string, without the quotes
RECURSIVE JsonEscape(_)
JsonEscape(s) ==
    IF s = <<>> THEN <<>> ELSE JsonEscapeChar(Head(s)) \o JsonEscape(Tail(s))

\* what json.loads and bytes.decode raise, and the None of Python, as values
\* that are no text
JSONDecodeError == <<"JSONDecodeError">>
UnicodeDecodeError == <<"UnicodeDecodeError">>
None == <<"None">>

\* the characters JSON writes as \uXXXX in the bodies modelled
Escaped == {ESC, "U23F5"} \cup Surrogates

\* the string a JSON string literal without quote denotes: the escapes
\* \u001b, \u23f5 and \ud800 are their characters; any other backslash is
\* outside the bodies modelled and is JSONDecodeError
RECURSIVE JsonUnescape(_)
JsonUnescape(s) ==
    IF s = <<>> THEN <<>>
    ELSE IF Head(s) = "\\"
    THEN IF Len(s) >= 6 /\ \E c \in Escaped : SubSeq(s, 1, 6) = JsonEscapeChar(c)
         THEN LET c == CHOOSE c \in Escaped : SubSeq(s, 1, 6) = JsonEscapeChar(c)
                  rest == JsonUnescape(SubSeq(s, 7, Len(s)))
              IN IF rest = JSONDecodeError THEN rest ELSE <<c>> \o rest
         ELSE JSONDecodeError
    ELSE LET rest == JsonUnescape(Tail(s))
         IN IF rest = JSONDecodeError THEN rest ELSE <<Head(s)>> \o rest

ObjectOpen == <<"{", "\"", "c", "o", "m", "m", "a", "n", "d", "\"", ":", " ", "\"">>
ObjectClose == <<"\"", "}">>
EmptyObject == <<"{", "}">>
NullCommand == <<"{", "\"", "c", "o", "m", "m", "a", "n", "d", "\"", ":", " ", "n", "u", "l", "l", "}">>
NotJson == <<"n", "o", "t", " ", "j", "s", "o", "n">>
NotUtf8 == <<"{", "\"", "c", "o", "m", "m", "a", "n", "d", "\"", ":", " ", "\"">> \o <<"FF">> \o <<"\"", "}">>

\* the body {"command": "<c>"}
JsonBody(c) == Encode(ObjectOpen \o JsonEscape(c) \o ObjectClose)

\* the bodies a client can post: an object with each command, an object
\* without the field, a null command, a text that is not JSON, bytes that
\* are not UTF-8
Bodies == { JsonBody(c) : c \in Commands } \cup {EmptyObject, NullCommand, NotJson, NotUtf8}

\* post_data.decode(): strict UTF-8, UnicodeDecodeError when a byte is
\* neither ASCII nor part of a complete three-byte sequence
PostDecode(post_data) ==
    IF \E i \in 1..Len(post_data) :
           /\ DecodeAt(post_data, i) = "DROP"
           /\ ~(/\ post_data[i] \in ContBytes
                /\ \/ i > 1 /\ post_data[i-1] \in LeadBytes /\ DecodeAt(post_data, i-1) # "DROP"
                   \/ i > 2 /\ post_data[i-2] \in LeadBytes /\ DecodeAt(post_data, i-2) # "DROP")
    THEN UnicodeDecodeError
    ELSE Decode(post_data)

\* json.loads(text) for the texts of Bodies: an object with a string or a
\* null 'command', an object without fields, or JSONDecodeError
JsonLoads(text) ==
    IF text = EmptyObject THEN [has |-> FALSE, command |-> None]
    ELSE IF text = NullCommand THEN [has |-> TRUE, command |-> None]
    ELSE IF /\ Len(text) >= Len(ObjectOpen) + Len(ObjectClose)
            /\ SubSeq(text, 1, Len(ObjectOpen)) = ObjectOpen
            /\ SubSeq(text, Len(text) - Len(ObjectClose) + 1, Len(text)) = ObjectClose
    THEN LET lit == SubSeq(text, Len(ObjectOpen) + 1, Len(text) - Len(ObjectClose))
         IN IF Contains(lit, <<"\"">>) \/ JsonUnescape(lit) = JSONDecodeError
            THEN [error |-> "JSONDecodeError"]
            ELSE [has |-> TRUE, command |-> JsonUnescape(lit)]
    ELSE [error |-> "JSONDecodeError"]

\* data.get('command', '')
GetCommand(data) == IF data.has THEN data.command ELSE <<>>

----------------------------------------------------------------------------
(* The server thread: start_http_server, do_POST, send_command *)

\* self.http_server = HTTPServer(('localhost', self.port), handler), or
\* OSError when the port cannot be bound
HttpCreate ==
    /\ httpPc = "create"
    /\ exit_status = "running"
    /\ \/ http_server' = "server" /\ srv' = "listening" /\ httpPc' = "serve_enter"
       \/ httpPc' = "failed" /\ UNCHANGED <<http_server, srv>>
    /\ UNCHANGED <<clsVars, debug_handle, running, master_fd, fdOpen, claude_pid,
                   original_settings, term, child, shutdown_request, is_shut_down, ptyOut,
                   stdinBuf, mainVars, command, pending, requests, histVars>>
    /\ UNCHANGED <<procVars, getVars>>

\* self.http_server.serve_forever() begins
HttpServeEnter ==
    /\ httpPc = "serve_enter"
    /\ exit_status = "running"
    /\ is_shut_down' = FALSE
    /\ httpPc' = "serving"
    /\ UNCHANGED <<clsVars, wrapVars, child, srv, shutdown_request, ptyOut, stdinBuf,
                   mainVars, command, pending, requests, histVars>>
    /\ UNCHANGED <<procVars, getVars>>

\* serve_forever() sees the shutdown request and returns
HttpServeExit ==
    /\ httpPc = "serving"
    /\ exit_status = "running"
    /\ shutdown_request
    /\ shutdown_request' = FALSE
    /\ is_shut_down' = TRUE
    /\ httpPc' = "exited"
    /\ UNCHANGED <<clsVars, wrapVars, child, srv, ptyOut, stdinBuf, mainVars, command,
                   pending, requests, histVars>>
    /\ UNCHANGED <<procVars, getVars>>

\* do_POST up to its answer or its call of send_command: "raise" when
\* post_data.decode() raises UnicodeDecodeError, which do_POST does not catch,
\* "400" on JSONDecodeError and on a command that fails the test of the
\* variant (is not None; truthy), "call" otherwise
PostOutcome(v, post_data) ==
    LET text == PostDecode(post_data) IN
    IF text = UnicodeDecodeError THEN [kind |-> "raise", command |-> <<>>]
    ELSE LET data == JsonLoads(text) IN
         IF "error" \in DOMAIN data THEN [kind |-> "400", command |-> <<>>]
         ELSE LET cmd == GetCommand(data) IN
              IF cmd = None \/ (v = "simple" /\ cmd = <<>>)
              THEN [kind |-> "400", command |-> <<>>]
              ELSE [kind |-> "call", command |-> cmd]

\* "status": "sent" if success else "failed"
StatusOf(success) == IF success THEN "sent" ELSE "failed"

\* the request being handled gets its answer: send_response(200) with the
\* body {"status": ..., "command": command}
Answer200(rs, success) ==
    requests' = [rs EXCEPT ![Len(rs)] =
                    [@ EXCEPT !.code = "200", !.status = StatusOf(success),
                              !.command = JsonEscape(command),
                              !.returned = IF success THEN "True" ELSE "False"]]

\* the request being handled with the result of the test
\* "self.master_fd and self.running" of send_command recorded
Tested(passed) ==
    [requests EXCEPT ![Len(requests)].tested = IF passed THEN "True" ELSE "False"]

\* the request being handled with the outcome of one more os.write call
\* recorded: "ok" or "OSError"
Attempted(outcome) ==
    [requests EXCEPT ![Len(requests)].oswrite = Append(@, outcome)]

\* the handler ends by an exception send_command let through: the connection
\* is closed without an answer
NoAnswer(rs) ==
    requests' = [rs EXCEPT ![Len(rs)] =
                    [@ EXCEPT !.code = "no_response", !.returned = "raised"]]

\* the paths of the GET requests the clients send
Paths == {"/state", "/"}

\* do_GET: send_response(200) with the body json.dumps(get_state()) for the
\* path /state, send_response(404) for any other
do_GET(v, self, path) ==
    IF path = "/state"
    THEN [code |-> "200",
          body |-> IF v = "wrapper" THEN get_state(self) ELSE Simple_get_state(self)]
    ELSE [code |-> "404", body |-> <<>>]

\* HttpGet with a get_state that stamps last_update
HttpGet_Stamps ==
    /\ httpPc = "serving"
    /\ exit_status = "running"
    /\ ~shutdown_request
    /\ srv = "listening"
    /\ fed + typed + posted < MaxEvents
    /\ posted' = posted + 1
    /\ \E path \in Paths : reply' = do_GET(variant, state, path)
    /\ clock' = clock + 1
    /\ state' = [state EXCEPT !.last_update = clock + 1]
    /\ UNCHANGED <<variant, lastChunk, prev, allText, ingests, fed, seenModeRule>>
    /\ UNCHANGED <<wrapVars, envVars, mainVars, httpVars, masterLog, termOut,
                   cleanupLog, cleanupCalls, runCleanups, closeFailed, typed>>
    /\ UNCHANGED procVars

\* a GET request arrives and do_GET handles it
HttpGet ==
    /\ httpPc = "serving"
    /\ exit_status = "running"
    /\ ~shutdown_request
    /\ srv = "listening"
    /\ fed + typed + posted < MaxEvents
    /\ posted' = posted + 1
    /\ \E path \in Paths : reply' = do_GET(variant, state, path)
    /\ UNCHANGED <<clsVars, wrapVars, envVars, mainVars, httpVars, masterLog, termOut,
                   cleanupLog, cleanupCalls, runCleanups, closeFailed, typed>>
    /\ UNCHANGED procVars

\* a POST /command request with the body post_data arrives whole and do_POST
\* handles it
HttpPostBody(post_data) ==
    /\ httpPc = "serving"
    /\ exit_status = "running"
    /\ ~shutdown_request
    /\ srv = "listening"
    /\ fed + typed + posted < MaxEvents
    /\ posted' = posted + 1
    /\ LET out == PostOutcome(variant, post_data)
           req == [body |-> post_data, code |-> "pending", status |-> "",
                   command |-> <<>>, returned |-> "not_called",
                   tested |-> "not_called", oswrite |-> <<>>]
       IN /\ command' = out.command
          /\ httpPc' = IF out.kind = "call" THEN "sc_check" ELSE "serving"
          /\ requests' = Append(requests,
                 [req EXCEPT !.code = CASE out.kind = "call" -> "pending"
                                        [] out.kind = "400" -> "400"
                                        [] out.kind = "raise" -> "no_response"])
    /\ UNCHANGED <<clsVars, wrapVars, envVars, mainVars, pending, masterLog, termOut,
                   cleanupLog, cleanupCalls, runCleanups, closeFailed, typed>>
    /\ UNCHANGED <<procVars, getVars>>

\* a client posts any of the bodies
HttpPost == \E post_data \in Bodies : HttpPostBody(post_data)

\* the empty command written as an escape sequence is: verbatim, nothing added
Framing_EmptyVerbatim(v, cmd) ==
    IF v = "wrapper" /\ (cmd = <<>> \/ cmd[1] = ESC)
    THEN << [part |-> "raw", bytes |-> Encode(cmd)] >>
    ELSE << [part |-> "cmd", bytes |-> Encode(cmd)], [part |-> "cr", bytes |-> <<"\r">>] >>

\* the carriage return written before the command
Framing_CrFirst(v, cmd) ==
    IF v = "wrapper" /\ cmd # <<>> /\ cmd[1] = ESC
    THEN << [part |-> "raw", bytes |-> Encode(cmd)] >>
    ELSE IF v = "wrapper" /\ cmd = <<>>
    THEN << [part |-> "cr", bytes |-> <<"\r">>] >>
    ELSE << [part |-> "cr", bytes |-> <<"\r">>], [part |-> "cmd", bytes |-> Encode(cmd)] >>

\* a POST /command whose body is shorter than its Content-Length: do_POST
\* waits in self.rfile.read(content_length), which has no timeout, and the
\* server thread handles nothing else meanwhile
HttpStall ==
    /\ httpPc = "serving"
    /\ exit_status = "running"
    /\ ~shutdown_request
    /\ srv = "listening"
    /\ httpPc' = "reading"
    /\ UNCHANGED <<clsVars, wrapVars, envVars, mainVars, command, pending, requests,
                   histVars, procVars, getVars>>

\* the client of such a request closes its connection: the read returns what
\* came, which is not JSON, and do_POST answers 400 to nobody
HttpClientGone ==
    /\ httpPc = "reading"
    /\ exit_status = "running"
    /\ httpPc' = "serving"
    /\ UNCHANGED <<clsVars, wrapVars, envVars, mainVars, command, pending, requests,
                   histVars, procVars, getVars>>

\* the writes send_command makes for a command, in order
Framing(v, cmd) ==
    IF v = "wrapper" /\ cmd # <<>> /\ cmd[1] = ESC
    THEN << [part |-> "raw", bytes |-> Encode(cmd)] >>
    ELSE IF v = "wrapper" /\ cmd = <<>>
    THEN << [part |-> "cr", bytes |-> <<"\r">>] >>
    ELSE << [part |-> "cmd", bytes |-> Encode(cmd)], [part |-> "cr", bytes |-> <<"\r">>] >>

\* self.debug_handle.write(...) raises ValueError on a closed file, which
\* send_command does not catch
DebugWriteRaises == debug_handle = "closed"

\* command.encode() raises UnicodeEncodeError, which send_command does not
\* catch (the wrapper does not encode the empty command)
EncodeRaises(cmd) == ~Encodable(cmd)

\* send_command: if self.master_fd and self.running: the first debug line
\* and the encoding of the command, then the writes; else return False
ScCheck ==
    /\ httpPc = "sc_check"
    /\ exit_status = "running"
    /\ IF master_fd # "None" /\ running
       THEN IF DebugWriteRaises \/ EncodeRaises(command)
            THEN pending' = <<>> /\ httpPc' = "serving" /\ NoAnswer(Tested(TRUE))
            ELSE /\ pending' = Framing(variant, command)
                 /\ httpPc' = "sc_write"
                 /\ requests' = Tested(TRUE)
       ELSE pending' = <<>> /\ httpPc' = "serving" /\ Answer200(Tested(FALSE), FALSE)
    /\ UNCHANGED <<clsVars, wrapVars, envVars, mainVars, command, histVars>>
    /\ UNCHANGED <<procVars, getVars>>

\* the handler of OSError writing the same bytes again
OnOSError_Retry ==
    /\ pending' = pending
    /\ httpPc' = "sc_write"
    /\ requests' = Attempted("OSError")

\* send_command: except OSError: return False, whatever was left to write
OnOSError ==
    /\ pending' = <<>>
    /\ httpPc' = "serving"
    /\ Answer200(Attempted("OSError"), FALSE)

\* send_command: the next os.write(self.master_fd, ...) and its debug line;
\* after the last one return True; OSError returns False; time.sleep(0.001)
\* separates the command from its carriage return
ScWrite ==
    /\ httpPc = "sc_write"
    /\ exit_status = "running"
    /\ \/ /\ WriteCanSucceed
          /\ masterLog' = Append(masterLog, [by |-> "http", req |-> Len(requests),
                                             part |-> Head(pending).part,
                                             bytes |-> Head(pending).bytes])
          /\ IF DebugWriteRaises
             THEN pending' = <<>> /\ httpPc' = "serving" /\ NoAnswer(Attempted("ok"))
             ELSE /\ pending' = Tail(pending)
                  /\ IF Tail(pending) = <<>>
                     THEN httpPc' = "serving" /\ Answer200(Attempted("ok"), TRUE)
                     ELSE httpPc' = "sc_write" /\ requests' = Attempted("ok")
       \/ /\ WriteCanFail
          /\ OnOSError
          /\ UNCHANGED masterLog
    /\ UNCHANGED <<clsVars, wrapVars, envVars, mainVars, command, termOut, cleanupLog,
                   cleanupCalls, runCleanups, closeFailed, typed, posted>>
    /\ UNCHANGED <<procVars, getVars>>

----------------------------------------------------------------------------
(* The wrapper as a whole *)

Init ==
    /\ ClsInit({"wrapper", "simple"})
    /\ SysInit

Next ==
    \/ ChildWrite \/ ChildExit \/ ExecFails \/ UserType \/ Interrupt
    \/ StartClaude \/ SetupTerminal \/ StartThread
    \/ LoopTest \/ Select \/ ReadMaster \/ ReadMasterClosed \/ Forward \/ ReadStdin \/ Probe
    \/ Finally \/ CRunning \/ CDebug \/ CRestore \/ CServer \/ CWait \/ CClose \/ CTerm \/ CKill
    \/ CleanupAgain \/ MainReturn \/ MainRaise
    \/ HttpCreate \/ HttpServeEnter \/ HttpServeExit \/ HttpPost \/ ScCheck \/ ScWrite
    \/ HttpGet \/ HttpStall \/ HttpClientGone

Spec == Init /\ [][Next]_vars

\* the steps of the main thread and of the server thread; the others are the
\* child's, the user's and the clients'
MainThread ==
    \/ StartClaude \/ SetupTerminal \/ StartThread
    \/ LoopTest \/ Select \/ ReadMaster \/ ReadMasterClosed \/ Forward \/ ReadStdin \/ Probe
    \/ Finally \/ CRunning \/ CDebug \/ CRestore \/ CServer \/ CWait \/ CClose \/ CTerm \/ CKill
    \/ MainReturn \/ MainRaise

ServerThread == HttpCreate \/ HttpServeEnter \/ HttpServeExit \/ ScCheck \/ ScWrite

\* a client posts the command "help"
HttpPostHelp == HttpPostBody(JsonBody(<<"h","e","l","p">>))

\* the statements of cleanup
CleanupSteps ==
    CRunning \/ CDebug \/ CRestore \/ CServer \/ CWait \/ CClose \/ CTerm \/ CKill

\* the wrapper with a child that writes nothing of its own: the child exits,
\* the user types and interrupts, clients post a command or stall
NextQuiet ==
    \/ MainThread \/ ServerThread
    \/ ChildExit \/ ExecFails \/ UserType \/ Interrupt
    \/ HttpPostHelp \/ HttpStall \/ HttpClientGone

\* that wrapper with cleanup and the server thread scheduled fairly: the
\* main thread, once in cleanup, takes the next statement of cleanup when it
\* can, and the server thread takes its next step when it can; nothing is
\* assumed of the child, the user and the clients
FairSpec == Init /\ [][NextQuiet]_vars /\ WF_vars(CleanupSteps) /\ WF_vars(ServerThread)


----------------------------------------------------------------------------
(* Properties of the wrapper *)

\* C1: the bytes send_command writes for one command are never interleaved
\* with a write of the loop: the write that follows the command bytes on the
\* master descriptor is the carriage return of that command.
C1_ExclusiveWrites ==
    \A i \in 1..(Len(masterLog) - 1) :
        masterLog[i].part = "cmd" =>
            masterLog[i+1].by = "http" /\ masterLog[i+1].part = "cr"

\* the effects of cleanup the idempotence is about
ExternalEffects == {"server_stop", "close_master", "sigterm", "sigkill"}

\* C2: a cleanup() call made after cleanup() returned once ends without an
\* error and without closing a descriptor, signalling the child or stopping
\* the server again.
C2_CleanupIdempotent ==
    (cleanupCalls >= 2 /\ mainPc \in {"done", "raised"}) =>
        /\ mainPc = "done"
        /\ \A i \in 1..Len(cleanupLog) :
              cleanupLog[i][1] >= 2 => cleanupLog[i][2] \notin ExternalEffects

\* the place of an effect in the order of cleanup
Rank(effect) ==
    CASE effect = "running_false" -> 1
      [] effect \in {"debug_close", "print_error"} -> 2
      [] effect = "restore" -> 3
      [] effect = "server_stop" -> 4
      [] effect = "close_master" -> 5
      [] effect = "sigterm" -> 6
      [] effect = "sigkill" -> 7

\* C3: in every execution of cleanup the effects happen in the order: running
\* set false, terminal restored, server stopped, master descriptor closed,
\* SIGTERM, SIGKILL; each is complete when the next happens.
C3_CleanupOrder ==
    \A i, j \in 1..Len(cleanupLog) :
        (i < j /\ cleanupLog[i][1] = cleanupLog[j][1])
            => Rank(cleanupLog[i][2]) < Rank(cleanupLog[j][2])

\* a cleanup that had every step to do, and did them all
C3_Witness ==
    /\ mainPc = "done"
    /\ cleanupLog = << <<1, "running_false">>, <<1, "restore">>, <<1, "server_stop">>,
                       <<1, "close_master">>, <<1, "sigterm">>, <<1, "sigkill">> >>

\* C4: the end of the loop of run(), by an empty read, an I/O error, the
\* child found exited or KeyboardInterrupt, makes run() call cleanup once:
\* not before the loop ends, once when it has ended, never twice.
C4_CleanupOnce ==
    /\ runCleanups <= 1
    /\ trigger \in {"none", "eof", "io_error", "child_exit", "interrupt"}
    /\ (trigger = "none" => runCleanups = 0)
    /\ (mainPc \in LoopPcs => trigger = "none")
    /\ ((trigger # "none" /\ mainPc # "finally") => runCleanups = 1)

\* the loop ended by KeyboardInterrupt and the cleanup run() called returned
C4_Witness ==
    /\ trigger = "interrupt"
    /\ mainPc = "done"
    /\ runCleanups = 1
    /\ cleanupCalls = 1

\* C5: a step of cleanup that fails does not stop the later steps: a
\* cleanup in which closing the master descriptor failed has still sent
\* SIGTERM to a child that exists.
C5_LaterStepsRun ==
    (/\ mainPc \in {"done", "raised"}
     /\ cleanupCalls \in closeFailed
     /\ claude_pid # "None"
     /\ child \in {"alive", "zombie"})
        => \E i \in 1..Len(cleanupLog) : cleanupLog[i] = <<cleanupCalls, "sigterm">>

\* the writes send_command made for request i, and their bytes
WritesOf(i) == SelectSeq(masterLog, LAMBDA w : w.req = i)

RECURSIVE BytesOf(_)
BytesOf(ws) == IF ws = <<>> THEN <<>> ELSE Head(ws).bytes \o BytesOf(Tail(ws))

\* C11: a POST /command whose body is the object {} is answered 400, and
\* nothing is written to the master descriptor for it.
C11_MissingFieldRejected ==
    \A i \in 1..Len(requests) :
        requests[i].body = EmptyObject =>
            /\ requests[i].code \in {"pending", "400"}
            /\ WritesOf(i) = <<>>

\* C12: a POST /command whose body is not valid JSON is answered 400 and
\* changes nothing outside the server: no write to the master descriptor, the
\* same ClaudeState, the main thread where it was, the server still serving.
C12_BadJsonRejected ==
    [][ (/\ Len(requests') = Len(requests) + 1
         /\ requests'[Len(requests')].body \in {NotJson, NotUtf8})
        => /\ requests'[Len(requests')].code = "400"
           /\ masterLog' = masterLog
           /\ state' = state
           /\ mainPc' = mainPc /\ running' = running
           /\ httpPc' = "serving" /\ srv' = "listening" ]_vars

\* the bodies that carry a string command, and the command each carries
CommandBodies == { JsonBody(c) : c \in Commands }
Carried == [post_data \in CommandBodies |-> GetCommand(JsonLoads(PostDecode(post_data)))]
CommandOf(post_data) == Carried[post_data]

\* the body that carries each command
BodyOf == [c \in Commands |-> JsonBody(c)]

\* C13: a POST /command with a string 'command' is answered 200 with the
\* command echoed and with status "sent" exactly when send_command returned
\* True, "failed" exactly when it returned False (the simplified variant is
\* held to this for non-empty commands only).
C13_AnswerReportsDispatch ==
    \A i \in 1..Len(requests) :
        (/\ requests[i].body \in CommandBodies
         /\ (variant = "wrapper" \/ CommandOf(requests[i].body) # <<>>))
        => /\ requests[i].code \in {"pending", "200"}
           /\ requests[i].code = "200" =>
                 /\ JsonUnescape(requests[i].command) = CommandOf(requests[i].body)
                 /\ (requests[i].status = "sent") <=> (requests[i].returned = "True")
                 /\ (requests[i].status = "failed") <=> (requests[i].returned = "False")

\* the os.write calls of request i that raised OSError
FailedWrites(i) == SelectSeq(requests[i].oswrite, LAMBDA o : o = "OSError")

\* C14: when an os.write of send_command fails, send_command returns False
\* (it does not raise), the failed write is its last call of os.write (no
\* retry) and what reached the master descriptor is what was written before
\* the failure; when the wrapper is not running send_command returns False
\* without calling os.write at all.
C14_WriteFailureReturnsFalse ==
    \A i \in 1..Len(requests) :
        LET r == requests[i] IN
        /\ FailedWrites(i) # <<>> =>
               /\ r.returned = "False"
               /\ Len(FailedWrites(i)) = 1
               /\ r.oswrite[Len(r.oswrite)] = "OSError"
               /\ Len(WritesOf(i)) = Len(r.oswrite) - 1
        /\ r.tested = "False" =>
               /\ r.returned = "False"
               /\ r.oswrite = <<>>
               /\ WritesOf(i) = <<>>

\* a command whose first write succeeded and whose carriage return failed,
\* and a command sent when the wrapper was no longer running
C14_Witness ==
    /\ \E i \in 1..Len(requests) :
          requests[i].oswrite = <<"ok", "OSError">> /\ requests[i].returned = "False"
    /\ \E i \in 1..Len(requests) :
          requests[i].tested = "False" /\ requests[i].returned = "False"

\* the requests for which send_command was called with command cmd
Dispatched(cmd) ==
    { i \in 1..Len(requests) :
        /\ requests[i].body = BodyOf[cmd]
        /\ requests[i].tested # "not_called" }

\* C15: send_command("") that returns True has made one write to the
\* master descriptor, of the single byte carriage return; whatever it
\* returns, it writes nothing else.
C15_EmptyCommandIsCr ==
    \A i \in Dispatched(<<>>) :
        /\ requests[i].returned = "True" =>
               /\ Len(WritesOf(i)) = 1
               /\ BytesOf(WritesOf(i)) = <<"\r">>
        /\ BytesOf(WritesOf(i)) \in {<<>>, <<"\r">>}

\* send_command("") returned True on the running wrapper
C15_Witness ==
    \E i \in Dispatched(<<>>) :
        requests[i].tested = "True" /\ requests[i].returned = "True"

\* the commands that begin with the escape character
EscCommands == { c \in Commands : c # <<>> /\ c[1] = ESC }

\* C16: a command that begins with ESC is written verbatim: when
\* send_command returns True the bytes it wrote are the bytes of the
\* command, in one write, with no carriage return after them.
C16_EscapeVerbatim ==
    \A c \in EscCommands : \A i \in Dispatched(c) :
        /\ requests[i].returned = "True" => BytesOf(WritesOf(i)) = Encode(c)
        /\ \A k \in 1..Len(WritesOf(i)) : WritesOf(i)[k].part # "cr"

\* the commands that are neither empty nor begin with the escape character
LineCommands == { c \in Commands : c # <<>> /\ c[1] # ESC }

\* the writes of a line command that send_command has sent whole: the bytes
\* of the command first, one carriage return second and last
CommandThenCr(c, ws) ==
    /\ Len(ws) = 2
    /\ ws[1].bytes = Encode(c)
    /\ ws[2].bytes = <<"\r">>

\* C17 as stated: a line command sent whole is its bytes then a carriage
\* return, and the bytes written are len(command) + 1, len being the length
\* of the string
C17_CommandThenCr ==
    \A c \in LineCommands : \A i \in Dispatched(c) :
        requests[i].returned = "True" =>
            /\ CommandThenCr(c, WritesOf(i))
            /\ Len(BytesOf(WritesOf(i))) = Len(c) + 1

\* C17 amended: a line command sent whole is its bytes then a carriage
\* return, the carriage return is the last byte and the bytes written are
\* len(command.encode()) + 1; a carriage return is never written before the
\* command.
C17_CommandBytesThenCr ==
    \A c \in LineCommands : \A i \in Dispatched(c) :
        /\ requests[i].returned = "True" =>
               /\ CommandThenCr(c, WritesOf(i))
               /\ Len(BytesOf(WritesOf(i))) = Len(Encode(c)) + 1
               /\ BytesOf(WritesOf(i))[Len(BytesOf(WritesOf(i)))] = "\r"
        /\ WritesOf(i) # <<>> => WritesOf(i)[1].bytes = Encode(c)

\* a command of one character and three bytes has been sent whole
C17_Witness ==
    \E i \in Dispatched(<<"U23F5">>) :
        requests[i].returned = "True" /\ Len(BytesOf(WritesOf(i))) = 4

\* C18: when 'claude' is not on the search path and nothing else ends the
\* loop (no interrupt), the program ends with a non-zero exit status.
C18_MissingExecutableExitsNonZero ==
    (/\ exec = "not_found"
     /\ trigger # "interrupt"
     /\ exit_status # "running")
    => exit_status # "0"

\* C19: in cleanup SIGKILL is sent, after the grace period, only to a child
\* that has not exited by then, and neither signalling step raises.
C19_KillOnlyIfStillRunning ==
    [][ /\ (mainPc = "c_sleep" /\ cleanupLog' # cleanupLog) => child = "alive"
        /\ mainPc \in {"c_term", "c_sleep"} => mainPc' # "raised" ]_vars

\* C20: a cleanup that has begun comes to its end (it returns, or raises),
\* whatever the server thread is doing when the server is stopped.
C20_CleanupCompletes ==
    (mainPc = "c_running") ~> (mainPc \in {"done", "raised", "exited"})

----------------------------------------------------------------------------
(* Properties of the classifier *)

Min(a, b) == IF a < b THEN a ELSE b

\* the last n characters of s
Suffix(s, n) == SubSeq(s, Len(s) - n + 1, Len(s))

Capacity == IF variant = "wrapper" THEN BufferCap ELSE SimpleBufferCap

\* C6: after any sequence of parse_output calls the buffer, and the buffer_size
\* get_state reports, never exceeds the capacity of the variant (2000, 1000
\* in the simplified variant), and the buffer is the text ingested so far
\* without its oldest characters: the last min(capacity, total) characters.
C6_BufferBounded ==
    /\ Len(state.buffer) <= Capacity
    /\ (variant = "wrapper" => get_state(state).buffer_size <= BufferCap)
    /\ (variant = "simple" => Simple_get_state(state).buffer_size <= SimpleBufferCap)
    /\ state.buffer = Suffix(allText, Min(Capacity, Len(allText)))

\* more than the capacity was ingested, in more than one call, and the
\* characters discarded differ from the ones kept
C6_Witness ==
    /\ variant = "wrapper"
    /\ ingests >= 2
    /\ Len(allText) > BufferCap
    /\ Len(state.buffer) = BufferCap
    /\ SubSeq(allText, 1, BufferCap) # state.buffer

Modes == {"unknown", "startup", "interactive", "plan", "auto-accept",
          "confirmation", "choice", "thinking", "error", "exit-confirm"}

\* C7: a fresh ClaudeState reports mode "unknown" and buffer_size 0, mode is
\* always one of the ten enumerated values, and mode is "unknown" as long as
\* no ingested chunk contained the pattern of a mode rule.
C7_ModeEnumerated ==
    variant = "wrapper" =>
        /\ state.mode \in Modes
        /\ get_state(state).mode \in Modes
        /\ (ingests = 0 => /\ get_state(state).mode = "unknown"
                           /\ get_state(state).buffer_size = 0)
        /\ (~seenModeRule => state.mode = "unknown")

\* the mode left "unknown" by a chunk without a mode pattern that changed
\* the buffer, then set by the next chunk
C7_Witness ==
    /\ variant = "wrapper"
    /\ ingests >= 2
    /\ prev.mode = "unknown"
    /\ prev.buffer # <<>>
    /\ state.mode \notin {"unknown"}
    /\ seenModeRule

\* the modes of the exact UI markers that occur in text
ExactModesIn(text) ==
    { r[2] : r \in { q \in { <<AutoAcceptMarker, "auto-accept">>, <<PlanMarker, "plan">>,
                             <<ShortcutsMarker, "interactive">>, <<ExitMarker, "exit-confirm">>,
                             <<WelcomeMarker, "startup">> } : Contains(text, q[1]) } }

\* the models of the model-change announcements that occur in text
ModelsIn(text) ==
    { r[2] : r \in { q \in { <<ModelOpus, "opus">>, <<ModelDefault, "sonnet">>,
                             <<ModelSonnet, "sonnet">> } : Contains(text, q[1]) } }

\* C8: one parse_output call applies the rule of highest priority whose
\* pattern occurs in the chunk and no other: exact UI markers, then
\* confirmation, choice, thinking, error phrases, then model-change
\* announcements, then the bare ">" (without the auto-accept glyphs); a mode
\* rule leaves model alone, the model rule leaves mode alone, and no pattern
\* leaves both; a plan marker without the auto-accept marker gives "plan".
C8_FirstMatchWins ==
    (variant = "wrapper" /\ ingests > 0) =>
        LET text == Decode(lastChunk)
            low == Lower(text)
            modeIs(m) == state.mode = m /\ state.model = prev.model
        IN /\ IF ExactModesIn(text) # {}
                THEN state.mode \in ExactModesIn(text) /\ state.model = prev.model
              ELSE IF AnyIn(ConfirmPhrases, low) THEN modeIs("confirmation")
              ELSE IF AnyIn(ChoicePhrases, low) THEN modeIs("choice")
              ELSE IF AnyIn(ThinkingPhrases, low) THEN modeIs("thinking")
              ELSE IF AnyIn(ErrorPhrases, low) THEN modeIs("error")
              ELSE IF ModelsIn(text) # {}
                THEN state.mode = prev.mode /\ state.model \in ModelsIn(text)
              ELSE IF Contains(text, <<">">>) /\ ~Contains(text, AutoGlyphs)
                THEN modeIs("interactive")
              ELSE state.mode = prev.mode /\ state.model = prev.model
           /\ (Contains(text, PlanMarker) /\ ~Contains(text, AutoAcceptMarker)
                  => state.mode = "plan")

\* a chunk with "(y/n)" and "error" in it gave "confirmation"
C8_Witness ==
    /\ variant = "wrapper"
    /\ ingests > 0
    /\ Contains(Lower(Decode(lastChunk)), <<"(","y","/","n",")">>)
    /\ Contains(Lower(Decode(lastChunk)), <<"e","r","r","o","r">>)
    /\ prev.mode # "confirmation"
    /\ state.mode = "confirmation"

\* C9: a chunk whose bytes contain the encoding of the auto-accept marker
\* leaves mode "auto-accept", whatever the mode was and whatever else the
\* chunk holds.
C9_AutoAcceptWins ==
    (variant = "wrapper" /\ ingests > 0 /\ Contains(lastChunk, Encode(AutoAcceptMarker)))
        => state.mode = "auto-accept"

\* the marker came with a ">" in the same chunk, after another mode
C9_Witness ==
    /\ variant = "wrapper"
    /\ ingests > 0
    /\ Contains(lastChunk, Encode(AutoAcceptMarker))
    /\ Contains(lastChunk, <<">">>)
    /\ prev.mode \notin {"unknown", "auto-accept"}
    /\ state.mode = "auto-accept"

\* the lines of s (s.split('\n')) given by the index of their first character
LineStarts(s) == {1} \cup { i + 1 : i \in { j \in 1..Len(s) : s[j] = "\n" } }

\* the line of s that starts at index a, without its newline
LineAt(s, a) ==
    LET ends == { j \in a..Len(s) : s[j] = "\n" }
    IN IF ends = {} THEN SubSeq(s, a, Len(s))
       ELSE SubSeq(s, a, (CHOOSE j \in ends : \A k \in ends : j <= k) - 1)

\* the starts of the lines of s whose stripped text is non-empty, contains ">"
\* and does not start with "["
PromptLineStarts(s) ==
    { a \in LineStarts(s) :
        LET t == Strip(LineAt(s, a))
        IN t # <<>> /\ (\E i \in 1..Len(t) : t[i] = ">") /\ t[1] # "[" }

\* C10: after every parse_output, when the buffer without its ANSI codes has
\* a line whose stripped text is non-empty, contains ">" and does not start
\* with "[", prompt is the stripped text of the last such line of the buffer.
C10_PromptIsLastPromptLine ==
    (variant = "wrapper" /\ ingests > 0) =>
        LET clean == StripAnsi(state.buffer)
            starts == PromptLineStarts(clean)
        IN starts # {} =>
             get_state(state).prompt =
                Strip(LineAt(clean, CHOOSE a \in starts : \A b \in starts : b <= a))

\* the buffer "\x1b[32mfoo>\x1b[0m\n[log]\nbar> ", ingested in three chunks,
\* gives the prompt "bar>"
C10_Witness ==
    /\ variant = "wrapper"
    /\ ingests = 3
    /\ state.buffer = <<ESC,"[","3","2","m","f","o","o",">",ESC,"[","0","m","\n",
                        "[","l","o","g","]","\n","b","a","r",">"," ">>
    /\ prev.current_prompt = <<"f","o","o",">">>
    /\ state.current_prompt = <<"b","a","r",">">>

\* C21: a chunk that contains the exit-confirm marker and "? for shortcuts",
\* and neither the auto-accept nor the plan marker, leaves mode "exit-confirm".
C21_ExitConfirmBeforeShortcuts ==
    (/\ variant = "wrapper"
     /\ ingests > 0
     /\ Contains(Decode(lastChunk), ExitMarker)
     /\ Contains(Decode(lastChunk), ShortcutsMarker)
     /\ ~Contains(Decode(lastChunk), AutoAcceptMarker)
     /\ ~Contains(Decode(lastChunk), PlanMarker))
        => state.mode = "exit-confirm"

\* the chunk holds a pattern of one of the mode rules tested before the
\* model announcements
EarlierRuleIn(text) ==
    \/ ExactModesIn(text) # {}
    \/ AnyIn(ConfirmPhrases \cup ChoicePhrases \cup ThinkingPhrases \cup ErrorPhrases,
             Lower(text))

\* C22: when the model rule is the one applied to a chunk (no pattern of an
\* earlier rule occurs in it), model becomes "opus" for "Set model to opus",
\* else "sonnet" for "Set model to Default" or "Set model to sonnet", and mode
\* is unchanged even with a bare ">" in the chunk; every other rule, and no
\* rule, leaves model unchanged.
C22_ModelRuleLeavesMode ==
    (variant = "wrapper" /\ ingests > 0) =>
        LET text == Decode(lastChunk) IN
        IF ~EarlierRuleIn(text) /\ ModelsIn(text) # {}
        THEN /\ state.mode = prev.mode
             /\ state.model = IF Contains(text, ModelOpus) THEN "opus" ELSE "sonnet"
        ELSE state.model = prev.model

\* "Set model to opus" came with a ">" in one chunk after a chunk that had
\* set another mode than "interactive": the model changed, the mode did not
C22_Witness ==
    /\ variant = "wrapper"
    /\ ingests = 2
    /\ Contains(Decode(lastChunk), ModelOpus)
    /\ Contains(Decode(lastChunk), <<">">>)
    /\ prev.mode \notin {"unknown", "interactive"}
    /\ prev.model # "opus"
    /\ state.model = "opus"
    /\ state.mode = prev.mode

\* a pattern of a rule that sets mode m occurs in text
ModeCauseIn(m, text) ==
    CASE m = "auto-accept"  -> Contains(text, AutoAcceptMarker)
      [] m = "plan"         -> Contains(text, PlanMarker)
      [] m = "interactive"  -> Contains(text, ShortcutsMarker) \/ Contains(text, <<">">>)
      [] m = "exit-confirm" -> Contains(text, ExitMarker)
      [] m = "startup"      -> Contains(text, WelcomeMarker)
      [] m = "confirmation" -> AnyIn(ConfirmPhrases, Lower(text))
      [] m = "choice"       -> AnyIn(ChoicePhrases, Lower(text))
      [] m = "thinking"     -> AnyIn(ThinkingPhrases, Lower(text))
      [] m = "error"        -> AnyIn(ErrorPhrases, Lower(text))
      [] OTHER              -> FALSE

\* C23: a parse_output call changes mode only to the mode of a pattern that
\* occurs whole in the chunk of that call, and model only to the model of an
\* announcement that occurs whole in it, whatever the accumulated buffer
\* holds: a marker split over two chunks applies its rule in neither call.
C23_ChunkOnly ==
    (variant = "wrapper" /\ ingests > 0) =>
        LET text == Decode(lastChunk) IN
        /\ (state.mode # prev.mode => ModeCauseIn(state.mode, text))
        /\ (state.model # prev.model => state.model \in ModelsIn(text))

\* the auto-accept marker arrived in two chunks, cut inside it: the buffer
\* holds the whole marker, neither chunk does, and mode is still "unknown"
C23_Witness ==
    /\ variant = "wrapper"
    /\ ingests = 2
    /\ lastChunk = AutoAcceptTail
    /\ prev.buffer = Decode(AutoAcceptHead)
    /\ ~Contains(prev.buffer, AutoAcceptMarker)
    /\ ~Contains(Decode(lastChunk), AutoAcceptMarker)
    /\ Contains(state.buffer, AutoAcceptMarker)
    /\ prev.mode = "unknown"
    /\ state.mode = "unknown"

\* no condition of the elif chain of parse_output holds of text
NoRuleIn(text) ==
    /\ ~EarlierRuleIn(text)
    /\ ModelsIn(text) = {}
    /\ ~(Contains(text, <<">">>) /\ ~Contains(text, AutoGlyphs))

\* C30: a parse_output call never takes mode from another value back to
\* "unknown", and a chunk that matches no rule leaves mode and model as they
\* were.
C30_ModeNeverBackToUnknown ==
    (variant = "wrapper" /\ ingests > 0) =>
        /\ (prev.mode # "unknown" => state.mode # "unknown")
        /\ (NoRuleIn(Decode(lastChunk)) =>
               state.mode = prev.mode /\ state.model = prev.model)

\* after a mode was set, a chunk that matches no rule (a ">"
\* next to the auto-accept glyphs) changed the buffer and left both
C30_Witness ==
    /\ variant = "wrapper"
    /\ ingests >= 2
    /\ NoRuleIn(Decode(lastChunk))
    /\ Contains(Decode(lastChunk), <<">">>)
    /\ prev.mode \notin {"unknown", "interactive"}
    /\ state.mode = prev.mode
    /\ state.buffer # prev.buffer

----------------------------------------------------------------------------
(* Properties of the loop of run() and of the two threads *)

\* the main thread leaves the read of the master descriptor
LeavesRead == mainPc = "read_master" /\ mainPc' # "read_master"

\* C24: when the master descriptor is ready, an empty read ends the loop with
\* no parse_output call and nothing written to the terminal; a non-empty read
\* is given whole to parse_output, with nothing written to the terminal yet,
\* and the only thing the wrapper ever writes to the terminal is the chunk
\* classified last, unchanged, in the step after its classification.
C24_ClassifyThenForward ==
    [][ /\ (LeavesRead /\ trigger' # "interrupt") =>
              IF ptyOut = <<>>
              THEN /\ mainPc' = "finally"
                   /\ trigger' \in {"eof", "io_error"}
                   /\ ingests' = ingests /\ state' = state
                   /\ termOut' = termOut
              ELSE /\ mainPc' = "forward"
                   /\ ingests' = ingests + 1
                   /\ lastChunk' = ptyOut /\ rdata' = ptyOut
                   /\ state' = IF variant = "wrapper"
                               THEN parse_output(state, ptyOut, clock')
                               ELSE Simple_parse_output(state, ptyOut, clock')
                   /\ termOut' = termOut
        /\ (ingests' # ingests => LeavesRead)
        /\ ((variant = "wrapper" /\ termOut' # termOut) =>
              /\ mainPc = "forward"
              /\ rdata = lastChunk
              /\ termOut' = termOut \o lastChunk
              /\ state' = state /\ ingests' = ingests)
      ]_vars

\* a chunk was classified and then written to the terminal, and a later
\* iteration ended the loop on an empty read
C24_Witness ==
    /\ variant = "wrapper"
    /\ ingests = 1
    /\ lastChunk # <<>>
    /\ state.mode # "unknown"
    /\ termOut = lastChunk
    /\ trigger = "eof"

\* the main thread leaves the read of the standard input
LeavesStdin == mainPc = "read_stdin" /\ mainPc' # "read_stdin"

\* C25: the step that reads the local terminal input writes exactly the
\* bytes read to the master descriptor, in one write, or writes nothing when
\* the write fails and the loop breaks; it makes no parse_output call and
\* leaves mode, model, prompt, buffer and last_update as they were; the loop
\* writes nothing else to the master descriptor.
C25_InputForwardedUnclassified ==
    [][ /\ (LeavesStdin /\ trigger' # "interrupt") =>
              /\ state' = state
              /\ ingests' = ingests
              /\ \/ /\ masterLog' = Append(masterLog,
                                            [by |-> "loop", req |-> 0, part |-> "input",
                                             bytes |-> stdinBuf])
                    /\ mainPc' = "probe"
                 \/ /\ masterLog' = masterLog
                    /\ trigger' = "io_error"
                    /\ mainPc' = "finally"
        /\ ((masterLog' # masterLog /\ masterLog'[Len(masterLog')].by = "loop")
              => LeavesStdin)
      ]_vars

\* after the child's output was classified, the key the user typed reached
\* the master descriptor and the classifier's buffer does not hold it
C25_Witness ==
    /\ ingests = 1
    /\ state.buffer # <<>>
    /\ state.mode # "unknown"
    /\ \E i \in 1..Len(masterLog) :
          masterLog[i].by = "loop" /\ masterLog[i].bytes = <<"x">>
    /\ ~Contains(state.buffer, <<"x">>)

\* the main thread makes the waitpid probe
Probes == mainPc = "probe" /\ mainPc' # "probe" /\ trigger' # "interrupt"

\* C26: inside the loop every step leads to the probe or out of the loop, and
\* the next iteration starts after the probe only; a probe that finds the
\* child exited reaps it and ends the loop, whatever select had reported; a
\* probe that finds it running, and a probe that raises because the child is
\* no longer in the process table, go on to the next iteration.
C26_ProbeEndsIteration ==
    [][ /\ (mainPc \in {"select", "read_master", "forward", "read_stdin"} =>
               mainPc' \in {"select", "read_master", "forward", "read_stdin", "probe",
                            "finally"})
        /\ ((mainPc' = "loop_test" /\ mainPc # "loop_test") =>
               mainPc \in {"start_thread", "probe"})
        /\ ((mainPc' = "finally" /\ mainPc # "finally") => mainPc \in LoopPcs)
        /\ (Probes =>
               IF child = "zombie"
               THEN child' = "reaped" /\ trigger' = "child_exit" /\ mainPc' = "finally"
               ELSE child' = child /\ trigger' = trigger /\ mainPc' = "loop_test")
        /\ (Probes => state' = state /\ masterLog' = masterLog /\ termOut' = termOut)
      ]_vars

\* the probe found the child exited in an iteration in which select had
\* reported nothing, before anything was read or written
C26_Witness ==
    /\ trigger = "child_exit"
    /\ child = "reaped"
    /\ mainPc = "finally"
    /\ ingests = 0
    /\ ptyOut = <<>>
    /\ stdinBuf = <<>>
    /\ masterLog = <<>>

\* the server thread or a client takes a step
ServerSteps ==
    httpPc' # httpPc \/ requests' # requests \/ reply' # reply \/ posted' # posted

\* C27: mode, model, prompt, buffer and last_update change only in the step
\* of the loop that gives the chunk it read to parse_output; no step of the
\* server thread changes them (a GET, a POST, a dispatch by send_command), and
\* the answer to GET /state is get_state of the state as it is.
C27_SingleWriter ==
    [][ /\ (state' # state =>
               /\ mainPc = "read_master" /\ mainPc' = "forward"
               /\ ingests' = ingests + 1
               /\ ~ServerSteps)
        /\ (ServerSteps => state' = state /\ ingests' = ingests)
        /\ ((reply' # reply /\ reply'.code = "200") =>
               reply'.body = IF variant = "wrapper" THEN get_state(state)
                                                    ELSE Simple_get_state(state))
      ]_vars

\* a client read the state after a chunk had been classified: the answer
\* shows the mode, the buttons of that mode, and the state is as it was
C27_Witness ==
    /\ variant = "wrapper"
    /\ ingests = 1
    /\ reply.code = "200"
    /\ reply.body = get_state(state)
    /\ reply.body.mode = "plan"
    /\ reply.body.button_config.shift_tab_label = "Plan"
    /\ reply.body.buffer_size = Len(state.buffer)
    /\ state = parse_output(prev, lastChunk, state.last_update)

\* cleanup sends a signal to the pid it has stored
Signals ==
    /\ cleanupLog' # cleanupLog
    /\ cleanupLog'[Len(cleanupLog')][2] \in {"sigterm", "sigkill"}

\* C28: cleanup sends no signal to the stored pid once the probe of the loop
\* has reaped the child.
C28_NoSignalAfterReap ==
    [][ Signals => ~(trigger = "child_exit" /\ child = "reaped") ]_vars

\* C29: once cleanup has returned the server has no listening socket and the
\* server thread is not in serve_forever or in a handler, whenever the loop
\* ended.
C29_ServerStoppedAfterCleanup ==
    mainPc = "done" =>
        /\ srv # "listening"
        /\ httpPc \notin {"serve_enter", "serving", "reading", "sc_check", "sc_write"}

\* C31: prompt is never cleared.  A parse_output call after which the buffer
\* without its ANSI codes has no line whose stripped text is non-empty,
\* contains ">" and does not start with "[" leaves prompt as it was; a prompt
\* that was non-empty stays non-empty; and prompt is always empty or a text
\* without leading or trailing whitespace that contains ">" and does not
\* start with "[".
C31_PromptNeverCleared ==
    variant = "wrapper" =>
        LET p == state.current_prompt IN
        /\ (ingests = 0 => p = <<>>)
        /\ ((ingests > 0 /\ PromptLineStarts(StripAnsi(state.buffer)) = {})
               => p = prev.current_prompt)
        /\ ((ingests > 0 /\ prev.current_prompt # <<>>) => p # <<>>)
        /\ (p = <<>> \/ (/\ Strip(p) = p
                          /\ \E i \in 1..Len(p) : p[i] = ">"
                          /\ p[1] # "["))

\* the line "\x1b[32mfoo>\x1b[0m" gave the prompt "foo>"; 2000 more characters
\* pushed it out of the buffer, which has no prompt line now, and prompt is
\* still "foo>"
C31_Witness ==
    /\ variant = "wrapper"
    /\ ingests = 3
    /\ Len(state.buffer) = BufferCap
    /\ PromptLineStarts(StripAnsi(state.buffer)) = {}
    /\ ~Contains(state.buffer, <<">">>)
    /\ prev.current_prompt = <<"f","o","o",">">>
    /\ state.current_prompt = <<"f","o","o",">">>

====
